---- MODULE Spec2Model ----
(***************************************************************************)
(* Grid layout engine of the interactive grid system.                      *)
(*                                                                         *)
(* The repository holds three generations of the same engine:              *)
(*   - the grid/ page (handleDragStop, handleResizeStop, pixelToGrid and   *)
(*     gridToPixel over a GridMath),                                       *)
(*   - the components/ grid (GridSystem, GridBox, lib/gridUtils over       *)
(*     GridPosition = {colStart, colEnd, rowStart, rowEnd}),               *)
(*   - the grid/utils snapping (snapToGrid, clampToGrid, gridMath).        *)
(* Each is modelled from its own source.  Pixel quantities are integers    *)
(* (whole pixels); Math.round(a / b) is computed exactly as                *)
(* floor(a / b + 1/2).                                                     *)
(***************************************************************************)
EXTENDS Integers, Sequences, FiniteSets, TLC

VARIABLES
    input,          \* SpecFn: the argument tuple handed to a pure function
    out,            \* SpecFn: what the function returned
    boxes,          \* grid/ page: useState<Box[]>, the Layout
    selectedIds,    \* grid/ page: useState<Set<string>>, the Selection
    nextId,         \* grid/ page: useRef id counter
    gridMath,       \* grid/ page: useGridMath state
    gboxes,         \* GridSystem prop boxes: Box[] with gridPosition/absolutePosition
    selectedBoxIds, \* GridSystem prop selectedBoxIds
    lastUpdates,    \* GridSystem: the handleBoxUpdate calls of the last event
    homeBoxes,      \* README page.tsx: useState<BoxData[]> boxes
    homeSelected,   \* README page.tsx: useState<Set<string>> selectedBoxIds
    history,        \* README page.tsx: useState<HistoryState[]>
    historyIndex,   \* README page.tsx: useState historyIndex (0-based, -1 when empty)
    boxIdCounter,   \* README page.tsx: useRef boxIdCounter
    homeWidth,      \* README page.tsx: useState containerWidth
    timers,         \* README page.tsx: setTimeout callbacks not yet run
    lastOp          \* README page.tsx: the last handler run and its arguments

varsFn == <<input, out>>
varsPage == <<boxes, selectedIds, nextId, gridMath>>
varsGrid == <<gboxes, selectedBoxIds, lastUpdates>>
varsHome == <<homeBoxes, homeSelected, history, historyIndex, boxIdCounter,
              homeWidth, timers, lastOp>>
vars == <<input, out, boxes, selectedIds, nextId, gridMath, gboxes, selectedBoxIds,
          lastUpdates, homeBoxes, homeSelected, history, historyIndex, boxIdCounter,
          homeWidth, timers, lastOp>>

-----------------------------------------------------------------------------
(* Program constants *)

GRID_COLUMNS == 10
GRID_GAP == 16
ROW_HEIGHT == 80
CELL_SIZE == 80
HOOK_ROW_HEIGHT == 60
GAP == 16
MAX_ROWS_CELLS == 5
MAX_ATTEMPTS == 100
PADDING_OFFSET == 24
DEFAULT_CELL_WIDTH == 80
DEFAULT_GRID_WIDTH == 896

-----------------------------------------------------------------------------
(* Arithmetic of the JavaScript runtime *)

Max(a, b) == IF a >= b THEN a ELSE b
Min(a, b) == IF a <= b THEN a ELSE b

\* Math.round(a / b) for b > 0: nearest integer, ties towards +infinity
MathRound(a, b) == (2 * a + b) \div (2 * b)

-----------------------------------------------------------------------------
(* grid/utils/gridMath *)

\* The quotient is exact for the container widths the model draws
\* (containerWidth - 144 divisible by 10).
calculateCellWidth(containerWidth) ==
    LET totalGaps == (GRID_COLUMNS - 1) * GRID_GAP
    IN  (containerWidth - totalGaps) \div GRID_COLUMNS

calculateBoxPosition(col, row, colSpan, rowSpan, cellWidth) ==
    [left   |-> (col - 1) * (cellWidth + GRID_GAP),
     top    |-> (row - 1) * (ROW_HEIGHT + GRID_GAP),
     width  |-> colSpan * cellWidth + (colSpan - 1) * GRID_GAP,
     height |-> rowSpan * ROW_HEIGHT + (rowSpan - 1) * GRID_GAP]

-----------------------------------------------------------------------------
(* grid/utils/snapping *)

\* mutant: the column computed 0-based (the "+ 1" dropped)
snapToGrid_ZeroBasedCol(x, y, width, height, cellWidth) ==
    LET col == Max(1, MathRound(x, cellWidth + GRID_GAP))
        row == Max(1, MathRound(y, ROW_HEIGHT + GRID_GAP) + 1)
        colSpan0 == Max(1, MathRound(width, cellWidth + GRID_GAP))
        rowSpan == Max(1, MathRound(height, ROW_HEIGHT + GRID_GAP))
        maxColSpan == GRID_COLUMNS - col + 1
        colSpan == Min(colSpan0, maxColSpan)
    IN  [col     |-> Min(col, GRID_COLUMNS),
         row     |-> row,
         colSpan |-> Max(1, colSpan),
         rowSpan |-> Max(1, rowSpan)]

snapToGrid(x, y, width, height, cellWidth) ==
    LET col == Max(1, MathRound(x, cellWidth + GRID_GAP) + 1)
        row == Max(1, MathRound(y, ROW_HEIGHT + GRID_GAP) + 1)
        colSpan0 == Max(1, MathRound(width, cellWidth + GRID_GAP))
        rowSpan == Max(1, MathRound(height, ROW_HEIGHT + GRID_GAP))
        maxColSpan == GRID_COLUMNS - col + 1
        colSpan == Min(colSpan0, maxColSpan)
    IN  [col     |-> Min(col, GRID_COLUMNS),
         row     |-> row,
         colSpan |-> Max(1, colSpan),
         rowSpan |-> Max(1, rowSpan)]

isWithinBounds(col, row, colSpan, rowSpan) ==
    /\ col >= 1
    /\ row >= 1
    /\ col + colSpan - 1 <= GRID_COLUMNS
    /\ colSpan > 0
    /\ rowSpan > 0

clampToGrid(col0, row0, colSpan0, rowSpan0) ==
    LET col1 == Max(1, col0)
        row == Max(1, row0)
        colSpan1 == Max(1, colSpan0)
        rowSpan == Max(1, rowSpan0)
        colSpan2 == IF col1 + colSpan1 - 1 > GRID_COLUMNS
                    THEN GRID_COLUMNS - col1 + 1
                    ELSE colSpan1
        moved == col1 > GRID_COLUMNS
    IN  [col     |-> IF moved THEN GRID_COLUMNS ELSE col1,
         row     |-> row,
         colSpan |-> IF moved THEN 1 ELSE colSpan2,
         rowSpan |-> rowSpan]

-----------------------------------------------------------------------------
(* grid/snapping.ts over a GridMath m = [cellWidth, rowHeight, gap] *)

\* mutant: the spans truncated (Math.floor) instead of rounded
pixelToGrid_FloorSpans(x, y, width, height, m) ==
    LET col0 == MathRound(x, m.cellWidth + m.gap) + 1
        row0 == MathRound(y, m.rowHeight + m.gap) + 1
        colSpan0 == Max(1, width \div (m.cellWidth + m.gap))
        rowSpan0 == Max(1, height \div (m.rowHeight + m.gap))
        col == Max(1, col0)
        colSpan1 == IF col + colSpan0 > GRID_COLUMNS + 1
                    THEN GRID_COLUMNS + 1 - col
                    ELSE colSpan0
        row == Max(1, row0)
    IN  [col     |-> col,
         row     |-> row,
         colSpan |-> Max(1, colSpan1),
         rowSpan |-> Max(1, rowSpan0)]

pixelToGrid(x, y, width, height, m) ==
    LET col0 == MathRound(x, m.cellWidth + m.gap) + 1
        row0 == MathRound(y, m.rowHeight + m.gap) + 1
        colSpan0 == Max(1, MathRound(width, m.cellWidth + m.gap))
        rowSpan0 == Max(1, MathRound(height, m.rowHeight + m.gap))
        col == Max(1, col0)
        colSpan1 == IF col + colSpan0 > GRID_COLUMNS + 1
                    THEN GRID_COLUMNS + 1 - col
                    ELSE colSpan0
        row == Max(1, row0)
    IN  [col     |-> col,
         row     |-> row,
         colSpan |-> Max(1, colSpan1),
         rowSpan |-> Max(1, rowSpan0)]

gridToPixel(box, m) ==
    [left   |-> (box.col - 1) * (m.cellWidth + m.gap),
     top    |-> (box.row - 1) * (m.rowHeight + m.gap),
     width  |-> box.colSpan * m.cellWidth + (box.colSpan - 1) * m.gap,
     height |-> box.rowSpan * m.rowHeight + (box.rowSpan - 1) * m.gap]

-----------------------------------------------------------------------------
(* lib/gridUtils.ts over GridPosition = [colStart, colEnd, rowStart, rowEnd] *)

gridUtils_pixelToGrid(x, y, width, height) ==
    LET colStart == Max(1, MathRound(x, CELL_SIZE) + 1)
        colEnd == Min(GRID_COLUMNS + 1,
                      colStart + Max(1, MathRound(width, CELL_SIZE)))
        rowStart == Max(1, MathRound(y, CELL_SIZE) + 1)
        rowEnd == rowStart + Max(1, MathRound(height, CELL_SIZE))
    IN  [colStart |-> Max(1, colStart),
         colEnd   |-> Min(GRID_COLUMNS + 1, colEnd),
         rowStart |-> Max(1, rowStart),
         rowEnd   |-> rowEnd]

gridUtils_gridToPixel(gridPos) ==
    [x      |-> (gridPos.colStart - 1) * CELL_SIZE,
     y      |-> (gridPos.rowStart - 1) * CELL_SIZE,
     width  |-> (gridPos.colEnd - gridPos.colStart) * CELL_SIZE,
     height |-> (gridPos.rowEnd - gridPos.rowStart) * CELL_SIZE]

\* mutant: closed ranges, so that touching edges count as overlap
doGridPositionsOverlap_Closed(pos1, pos2) ==
    /\ pos1.colStart <= pos2.colEnd
    /\ pos1.colEnd >= pos2.colStart
    /\ pos1.rowStart <= pos2.rowEnd
    /\ pos1.rowEnd >= pos2.rowStart

doGridPositionsOverlap(pos1, pos2) ==
    /\ pos1.colStart < pos2.colEnd
    /\ pos1.colEnd > pos2.colStart
    /\ pos1.rowStart < pos2.rowEnd
    /\ pos1.rowEnd > pos2.rowStart

isValidGridPosition(pos) ==
    /\ pos.colStart >= 1
    /\ pos.colStart <= GRID_COLUMNS
    /\ pos.colEnd > pos.colStart
    /\ pos.colEnd <= GRID_COLUMNS + 1
    /\ pos.rowStart >= 1
    /\ pos.rowEnd > pos.rowStart

constrainToGrid(width, height) ==
    LET minSize == CELL_SIZE
        maxWidth == GRID_COLUMNS * CELL_SIZE
        maxHeight == MAX_ROWS_CELLS * CELL_SIZE
    IN  [width  |-> Max(minSize, Min(maxWidth, MathRound(width, CELL_SIZE) * CELL_SIZE)),
         height |-> Max(minSize, Min(maxHeight, MathRound(height, CELL_SIZE) * CELL_SIZE))]

-----------------------------------------------------------------------------
(* README page.tsx, handleBoxDeselect lines 288-295: a Free box's rectangle
   is snapped and then clamped *)

snap(x, y, width, height, cellWidth) ==
    LET snapped == snapToGrid(x, y, width, height, cellWidth)
    IN  clampToGrid(snapped.col, snapped.row, snapped.colSpan, snapped.rowSpan)

-----------------------------------------------------------------------------
(* SpecFn: the pure geometry functions applied to drawn arguments *)

\* Container widths with an exact cell width: 1, 10, 16, 80 and 120 pixels
ContainerWidths == {154, 244, 304, 944, 1344}

PixelXs == {-200, -48, 0, 47, 48, 96, 768, 864, 1056, 1000000}
PixelYs == {-100, 0, 96, 1000000}
PixelWidths == {-50, 0, 80, 288, 480, 800, 1000000}
PixelHeights == {0, 80, 400, 960}

PixelInputs ==
    [kind : {"pixel"}, x : PixelXs, y : PixelYs, width : PixelWidths,
     height : PixelHeights, containerWidth : ContainerWidths]

RowsDrawn == {1, 2, 7}
RowSpansDrawn == {1, 2, 5, 8}

\* every valid grid rectangle over the drawn rows
ValidGridRects ==
    {r \in [col : 1..GRID_COLUMNS, row : RowsDrawn,
            colSpan : 1..GRID_COLUMNS, rowSpan : RowSpansDrawn] :
        r.col + r.colSpan - 1 <= GRID_COLUMNS}

GridInputs ==
    [kind : {"grid"}, r : ValidGridRects, containerWidth : ContainerWidths]

MaxPairCoord == 4
MaxPairSpan == 2

PairRects ==
    {p \in [colStart : 1..MaxPairCoord, colEnd : 2..(MaxPairCoord + MaxPairSpan),
            rowStart : 1..MaxPairCoord, rowEnd : 2..(MaxPairCoord + MaxPairSpan)] :
        /\ p.colEnd > p.colStart /\ p.colEnd - p.colStart <= MaxPairSpan
        /\ p.rowEnd > p.rowStart /\ p.rowEnd - p.rowStart <= MaxPairSpan}

PairInputs == [kind : {"pair"}, a : PairRects, b : PairRects]

NoInput == [kind |-> "none"]
NoOutput == [fn |-> "none"]

\* the GridMath the useGridMath hook builds for a container width
GridMathOf(containerWidth) ==
    [cellWidth |-> (containerWidth - (GRID_COLUMNS - 1) * GAP) \div GRID_COLUMNS,
     rowHeight |-> HOOK_ROW_HEIGHT,
     gap       |-> GAP,
     gridWidth |-> containerWidth]

toGridPosition(r) ==
    [colStart |-> r.col, colEnd |-> r.col + r.colSpan,
     rowStart |-> r.row, rowEnd |-> r.row + r.rowSpan]

ApplySnapToGrid ==
    /\ input.kind = "pixel" /\ out.fn = "none"
    /\ out' = [fn |-> "snapToGrid",
               r  |-> snapToGrid(input.x, input.y, input.width, input.height,
                                 calculateCellWidth(input.containerWidth))]
    /\ UNCHANGED input

ApplySnap ==
    /\ input.kind = "pixel" /\ out.fn = "none"
    /\ out' = [fn |-> "snap",
               r  |-> snap(input.x, input.y, input.width, input.height,
                           calculateCellWidth(input.containerWidth))]
    /\ UNCHANGED input

ApplyPixelToGrid ==
    /\ input.kind = "pixel" /\ out.fn = "none"
    /\ out' = [fn |-> "pixelToGrid",
               r  |-> pixelToGrid(input.x, input.y, input.width, input.height,
                                  GridMathOf(input.containerWidth))]
    /\ UNCHANGED input

ApplyGridUtilsPixelToGrid ==
    /\ input.kind = "pixel" /\ out.fn = "none"
    /\ out' = [fn |-> "gridUtils_pixelToGrid",
               g  |-> gridUtils_pixelToGrid(input.x, input.y, input.width, input.height)]
    /\ UNCHANGED input

ApplyConstrainToGrid ==
    /\ input.kind = "pixel" /\ out.fn = "none"
    /\ out' = [fn |-> "constrainToGrid",
               d  |-> constrainToGrid(input.width, input.height)]
    /\ UNCHANGED input

\* gridToPixel then pixelToGrid, grid/snapping.ts
ApplyRoundTrip ==
    /\ input.kind = "grid" /\ out.fn = "none"
    /\ LET m == GridMathOf(input.containerWidth)
           p == gridToPixel(input.r, m)
       IN  out' = [fn |-> "roundTrip",
                   r  |-> pixelToGrid(p.left, p.top, p.width, p.height, m)]
    /\ UNCHANGED input

\* calculateBoxPosition then snapToGrid and clampToGrid, grid/utils
ApplyRoundTripUtils ==
    /\ input.kind = "grid" /\ out.fn = "none"
    /\ LET cellWidth == calculateCellWidth(input.containerWidth)
           p == calculateBoxPosition(input.r.col, input.r.row, input.r.colSpan,
                                     input.r.rowSpan, cellWidth)
       IN  out' = [fn |-> "roundTripUtils",
                   r  |-> snap(p.left, p.top, p.width, p.height, cellWidth)]
    /\ UNCHANGED input

\* gridToPixel then pixelToGrid, lib/gridUtils.ts
ApplyRoundTripGridUtils ==
    /\ input.kind = "grid" /\ out.fn = "none"
    /\ LET p == gridUtils_gridToPixel(toGridPosition(input.r))
       IN  out' = [fn |-> "roundTripGridUtils",
                   g  |-> gridUtils_pixelToGrid(p.x, p.y, p.width, p.height)]
    /\ UNCHANGED input

ApplyOverlap ==
    /\ input.kind = "pair" /\ out.fn = "none"
    /\ out' = [fn |-> "overlap",
               ab |-> doGridPositionsOverlap(input.a, input.b),
               ba |-> doGridPositionsOverlap(input.b, input.a)]
    /\ UNCHANGED input

-----------------------------------------------------------------------------
(* Values the variables of a specification hold while another one runs *)

IdleFn == input = NoInput /\ out = NoOutput
IdlePage ==
    /\ boxes = << >> /\ selectedIds = {} /\ nextId = 0
    /\ gridMath = [cellWidth |-> 0, rowHeight |-> 0, gap |-> 0, gridWidth |-> 0]
IdleGrid ==
    /\ gboxes = << >> /\ selectedBoxIds = {}
    /\ lastUpdates = {}

IdleHome ==
    /\ homeBoxes = << >> /\ homeSelected = {}
    /\ history = << >> /\ historyIndex = 0 - 1
    /\ boxIdCounter = 0 /\ homeWidth = 0
    /\ timers = << >>
    /\ lastOp = [op |-> "none"]

InitFn ==
    /\ input \in PixelInputs \cup GridInputs \cup PairInputs
    /\ out = NoOutput
    /\ IdlePage /\ IdleGrid /\ IdleHome

NextFn ==
    \/ ApplySnapToGrid /\ UNCHANGED <<varsPage, varsGrid, varsHome>>
    \/ ApplySnap /\ UNCHANGED <<varsPage, varsGrid, varsHome>>
    \/ ApplyPixelToGrid /\ UNCHANGED <<varsPage, varsGrid, varsHome>>
    \/ ApplyGridUtilsPixelToGrid /\ UNCHANGED <<varsPage, varsGrid, varsHome>>
    \/ ApplyConstrainToGrid /\ UNCHANGED <<varsPage, varsGrid, varsHome>>
    \/ ApplyRoundTrip /\ UNCHANGED <<varsPage, varsGrid, varsHome>>
    \/ ApplyRoundTripUtils /\ UNCHANGED <<varsPage, varsGrid, varsHome>>
    \/ ApplyRoundTripGridUtils /\ UNCHANGED <<varsPage, varsGrid, varsHome>>
    \/ ApplyOverlap /\ UNCHANGED <<varsPage, varsGrid, varsHome>>

SpecFn == InitFn /\ [][NextFn]_vars

-----------------------------------------------------------------------------
(* The grid/ page: boxes, selectedIds, nextId of Home(), and the GridMath of
   its useGridMath hook.  A box id is String(n) of the counter value n; the
   model keeps n itself, String() being one-to-one on the counter values. *)

MaxId == 5

\* clicks and gestures are drawn for the boxes with id 1..MaxGestureId
MaxGestureId == 2

BoxIds(bs) == {bs[i].id : i \in 1..Len(bs)}

initialBoxes ==
    << [id |-> 1, col |-> 1, row |-> 1, colSpan |-> 2, rowSpan |-> 1],
       [id |-> 2, col |-> 3, row |-> 1, colSpan |-> 3, rowSpan |-> 2],
       [id |-> 3, col |-> 6, row |-> 1, colSpan |-> 2, rowSpan |-> 1],
       [id |-> 4, col |-> 1, row |-> 2, colSpan |-> 2, rowSpan |-> 2] >>

\* offsetWidth of the page container as the ResizeObserver reports it
PageWidths == {944}

\* positions and sizes react-rnd reports at the end of a gesture; the box
\* stays inside its parent (bounds="parent"), so none is negative
DragXs == {0, 192}
DragYs == {0, 76}
ResizeStops ==
    { [x |-> 0, y |-> 0, width |-> 560, height |-> 60],
      [x |-> 0, y |-> 152, width |-> 176, height |-> 440] }

GestureIds(bs) == BoxIds(bs) \cap (1..MaxGestureId)

MaxOf(S) == CHOOSE v \in S : \A w \in S : w <= v

InitPage ==
    /\ boxes = initialBoxes
    /\ selectedIds = {}
    /\ nextId = 5
    /\ gridMath = [cellWidth |-> DEFAULT_CELL_WIDTH, rowHeight |-> HOOK_ROW_HEIGHT,
                   gap |-> GAP, gridWidth |-> DEFAULT_GRID_WIDTH]
    /\ IdleFn /\ IdleGrid /\ IdleHome

\* useGridMath: the ResizeObserver callback
calculateGridMath(containerWidth) ==
    /\ gridMath' = GridMathOf(containerWidth)
    /\ UNCHANGED <<boxes, selectedIds, nextId>>

handleAddBox ==
    /\ nextId <= MaxId
    /\ LET maxRow == IF Len(boxes) > 0
                     THEN MaxOf({boxes[i].row + boxes[i].rowSpan - 1 : i \in 1..Len(boxes)})
                     ELSE 0
           newBox == [id |-> nextId, col |-> 1, row |-> maxRow + 1,
                      colSpan |-> 2, rowSpan |-> 1]
       IN  boxes' = Append(boxes, newBox)
    /\ nextId' = nextId + 1
    /\ UNCHANGED <<selectedIds, gridMath>>

\* the Toolbar button is disabled while boxCount === 0
handleClearAll(confirmed) ==
    /\ Len(boxes) # 0
    /\ IF confirmed
       THEN /\ boxes' = << >>
            /\ selectedIds' = {}
            /\ nextId' = 1
       ELSE UNCHANGED <<boxes, selectedIds, nextId>>
    /\ UNCHANGED gridMath

handleSelect(id, multiSelect) ==
    /\ selectedIds' =
           IF multiSelect
           THEN IF id \in selectedIds THEN selectedIds \ {id} ELSE selectedIds \cup {id}
           ELSE {id}
    /\ UNCHANGED <<boxes, nextId, gridMath>>

handleDeselect ==
    /\ selectedIds' = {}
    /\ UNCHANGED <<boxes, nextId, gridMath>>

\* the box's grid fields replaced by a snapped rectangle: { ...box, ...snapped }
withSnapped(box, snapped) ==
    [box EXCEPT !.col = snapped.col, !.row = snapped.row,
                !.colSpan = snapped.colSpan, !.rowSpan = snapped.rowSpan]

handleDragStop(id, x, y) ==
    /\ boxes' =
           [i \in 1..Len(boxes) |->
               IF boxes[i].id # id THEN boxes[i]
               ELSE LET box == boxes[i]
                        snapped ==
                            pixelToGrid(
                                x, y,
                                box.colSpan * gridMath.cellWidth
                                    + (box.colSpan - 1) * gridMath.gap,
                                box.rowSpan * gridMath.rowHeight
                                    + (box.rowSpan - 1) * gridMath.gap,
                                gridMath)
                    IN  withSnapped(box, snapped)]
    /\ UNCHANGED <<selectedIds, nextId, gridMath>>

handleResizeStop(id, x, y, width, height) ==
    /\ boxes' =
           [i \in 1..Len(boxes) |->
               IF boxes[i].id # id THEN boxes[i]
               ELSE withSnapped(boxes[i], pixelToGrid(x, y, width, height, gridMath))]
    /\ UNCHANGED <<selectedIds, nextId, gridMath>>

\* GridBox renders every box with an onClick, and wraps only a selected box
\* in Rnd: drag and resize gestures exist for selected boxes alone
NextPage ==
    \/ \E w \in PageWidths : calculateGridMath(w) /\ UNCHANGED <<varsFn, varsGrid, varsHome>>
    \/ handleAddBox /\ UNCHANGED <<varsFn, varsGrid, varsHome>>
    \/ \E c \in BOOLEAN : handleClearAll(c) /\ UNCHANGED <<varsFn, varsGrid, varsHome>>
    \/ \E id \in GestureIds(boxes), multi \in BOOLEAN :
           handleSelect(id, multi) /\ UNCHANGED <<varsFn, varsGrid, varsHome>>
    \/ handleDeselect /\ UNCHANGED <<varsFn, varsGrid, varsHome>>
    \/ \E id \in GestureIds(boxes) \cap selectedIds, x \in DragXs, y \in DragYs :
           handleDragStop(id, x, y) /\ UNCHANGED <<varsFn, varsGrid, varsHome>>
    \/ \E id \in GestureIds(boxes) \cap selectedIds, g \in ResizeStops :
           handleResizeStop(id, g.x, g.y, g.width, g.height)
               /\ UNCHANGED <<varsFn, varsGrid, varsHome>>

SpecPage == InitPage /\ [][NextPage]_vars

-----------------------------------------------------------------------------
(* components/GridSystem.tsx and components/GridBox.tsx.  boxes and
   selectedBoxIds are props of GridSystem, owned by the page that renders it;
   a box id "box-n" is kept as n.  A handler closes over the props of the
   last render, so every call made within one event sees the boxes and the
   selection the event started with. *)

Undefined == [def |-> FALSE, x |-> 0, y |-> 0, width |-> 0, height |-> 0]
Defined(p) == [def |-> TRUE, x |-> p.x, y |-> p.y, width |-> p.width, height |-> p.height]

GridPos(cs, ce, rs, re) == [colStart |-> cs, colEnd |-> ce, rowStart |-> rs, rowEnd |-> re]
GBox(id, pos) == [id |-> id, gridPosition |-> pos, absolutePosition |-> Undefined]

checkCollision(bs, sel, boxId, newGridPos) ==
    \E i \in 1..Len(bs) :
        /\ bs[i].id # boxId
        /\ bs[i].id \notin sel
        /\ doGridPositionsOverlap(bs[i].gridPosition, newGridPos)

\* a loop that moves rowStart and leaves rowEnd where it was
RECURSIVE probe_MovesRowStartOnly(_, _, _, _, _)
probe_MovesRowStartOnly(bs, sel, id, newPos, attempts) ==
    IF checkCollision(bs, sel, id, newPos) /\ attempts < MAX_ATTEMPTS
    THEN probe_MovesRowStartOnly(bs, sel, id,
               [newPos EXCEPT !.rowStart = @ + 1], attempts + 1)
    ELSE [newPos |-> newPos, attempts |-> attempts]

\* a loop that tests attempts <= 100 and so shifts once more
RECURSIVE probe_OneMoreAttempt(_, _, _, _, _)
probe_OneMoreAttempt(bs, sel, id, newPos, attempts) ==
    IF checkCollision(bs, sel, id, newPos) /\ attempts <= MAX_ATTEMPTS
    THEN probe_OneMoreAttempt(bs, sel, id,
               [newPos EXCEPT !.rowStart = @ + 1, !.rowEnd = @ + 1],
               attempts + 1)
    ELSE [newPos |-> newPos, attempts |-> attempts]

\* the while loop of handleBoxUpdate, lines 62-69
RECURSIVE probe(_, _, _, _, _)
probe(bs, sel, id, newPos, attempts) ==
    IF checkCollision(bs, sel, id, newPos) /\ attempts < MAX_ATTEMPTS
    THEN probe(bs, sel, id,
               [newPos EXCEPT !.rowStart = @ + 1, !.rowEnd = @ + 1],
               attempts + 1)
    ELSE [newPos |-> newPos, attempts |-> attempts]

\* a handler that keeps the current gridPosition whenever the candidate collides
afterProbe_KeepsCurrent(bs, id, gridPosition, absolutePosition, p) ==
    IF \E i \in 1..Len(bs) : bs[i].id = id
    THEN [called |-> TRUE, branch |-> "fallback", id |-> id,
          gridPosition |-> bs[CHOOSE i \in 1..Len(bs) : bs[i].id = id].gridPosition,
          absolutePosition |-> absolutePosition, attempts |-> p.attempts]
    ELSE [called |-> FALSE, branch |-> "fallback", id |-> id,
          gridPosition |-> gridPosition,
          absolutePosition |-> absolutePosition, attempts |-> p.attempts]

\* lines 71-79: what handleBoxUpdate does once the loop has ended with p
afterProbe(bs, id, gridPosition, absolutePosition, p) ==
    IF p.attempts < MAX_ATTEMPTS
    THEN [called |-> TRUE, branch |-> "shifted", id |-> id,
          gridPosition |-> p.newPos, absolutePosition |-> absolutePosition,
          attempts |-> p.attempts]
    ELSE IF \E i \in 1..Len(bs) : bs[i].id = id
         THEN LET currentBox == bs[CHOOSE i \in 1..Len(bs) : bs[i].id = id]
              IN  [called |-> TRUE, branch |-> "fallback", id |-> id,
                   gridPosition |-> currentBox.gridPosition,
                   absolutePosition |-> absolutePosition,
                   attempts |-> p.attempts]
         ELSE [called |-> FALSE, branch |-> "fallback", id |-> id,
               gridPosition |-> gridPosition,
               absolutePosition |-> absolutePosition,
               attempts |-> p.attempts]

\* handleBoxUpdate: the onBoxUpdate call it makes, if any
handleBoxUpdate(bs, sel, id, gridPosition, absolutePosition) ==
    IF ~absolutePosition.def /\ checkCollision(bs, sel, id, gridPosition)
    THEN CHOOSE call \in { afterProbe(bs, id, gridPosition, absolutePosition, p) :
                              p \in {probe(bs, sel, id, gridPosition, 0)} } : TRUE
    ELSE [called |-> TRUE, branch |-> "direct", id |-> id,
          gridPosition |-> gridPosition, absolutePosition |-> absolutePosition,
          attempts |-> 0]

\* the page's onBoxUpdate(id, gridPosition, absolutePosition): the box takes
\* both; an id that is not in the Layout changes nothing
onBoxUpdate(b, call) ==
    IF call.called /\ b.id = call.id
    THEN [b EXCEPT !.gridPosition = call.gridPosition,
                   !.absolutePosition = call.absolutePosition]
    ELSE b

\* what lastUpdates keeps of a call: the candidate, the grid rectangles of
\* the other unselected boxes it was probed against, and the call made
CallRecord(bs, sel, id, gridPosition, absolutePosition, gesture) ==
    [id        |-> id,
     gesture   |-> gesture,
     candidate |-> gridPosition,
     free      |-> absolutePosition.def,
     current   |-> IF absolutePosition.def THEN {}
                   ELSE {bs[i].gridPosition : i \in {j \in 1..Len(bs) : bs[j].id = id}},
     others    |-> IF absolutePosition.def THEN {} ELSE {bs[i].gridPosition :
                       i \in {j \in 1..Len(bs) : bs[j].id # id /\ bs[j].id \notin sel}},
     call      |-> handleBoxUpdate(bs, sel, id, gridPosition, absolutePosition)]

IndexOf(bs, id) == CHOOSE i \in 1..Len(bs) : bs[i].id = id
BoxOf(bs, id) == bs[IndexOf(bs, id)]

\* one onUpdate(id, gridPosition, absolutePosition) from a GridBox
Update(id, gridPosition, absolutePosition, gesture) ==
    LET rec == CallRecord(gboxes, selectedBoxIds, id, gridPosition, absolutePosition,
                          gesture)
    IN  /\ gboxes' = IF id \in BoxIds(gboxes)
                      THEN [gboxes EXCEPT ![IndexOf(gboxes, id)] = onBoxUpdate(@, rec.call)]
                      ELSE gboxes
        /\ lastUpdates' = {rec}
        /\ UNCHANGED selectedBoxIds

\* GridBox wraps a box in Rnd only when it is selected and has an
\* absolutePosition: the gestures below exist for such a box alone
IsFree(id) ==
    /\ id \in BoxIds(gboxes)
    /\ id \in selectedBoxIds
    /\ BoxOf(gboxes, id).absolutePosition.def

GridBox_handleDrag(id, d) ==
    /\ IsFree(id)
    /\ LET box == BoxOf(gboxes, id)
           newPosition == [def |-> TRUE,
                           x |-> d.x - PADDING_OFFSET, y |-> d.y - PADDING_OFFSET,
                           width |-> box.absolutePosition.width,
                           height |-> box.absolutePosition.height]
       IN  Update(id, box.gridPosition, newPosition, "drag")

GridBox_handleDragStop(id, d) ==
    /\ IsFree(id)
    /\ LET box == BoxOf(gboxes, id)
           newPosition == [def |-> TRUE,
                           x |-> d.x - PADDING_OFFSET, y |-> d.y - PADDING_OFFSET,
                           width |-> box.absolutePosition.width,
                           height |-> box.absolutePosition.height]
           newGridPos == gridUtils_pixelToGrid(d.x - PADDING_OFFSET, d.y - PADDING_OFFSET,
                                               box.absolutePosition.width,
                                               box.absolutePosition.height)
       IN  Update(id, newGridPos, newPosition, "dragStop")

\* ref.style.width/height parsed to whole pixels; position is Rnd's
GridBox_handleResize(id, newWidth, newHeight, position) ==
    /\ IsFree(id)
    /\ LET box == BoxOf(gboxes, id)
           constrained == constrainToGrid(newWidth, newHeight)
           newPosition == [def |-> TRUE,
                           x |-> position.x - PADDING_OFFSET,
                           y |-> position.y - PADDING_OFFSET,
                           width |-> constrained.width, height |-> constrained.height]
       IN  Update(id, box.gridPosition, newPosition, "resize")

GridBox_handleResizeStop(id, newWidth, newHeight, position) ==
    /\ IsFree(id)
    /\ LET constrained == constrainToGrid(newWidth, newHeight)
           newPosition == [def |-> TRUE,
                           x |-> position.x - PADDING_OFFSET,
                           y |-> position.y - PADDING_OFFSET,
                           width |-> constrained.width, height |-> constrained.height]
           newGridPos == gridUtils_pixelToGrid(position.x - PADDING_OFFSET,
                                               position.y - PADDING_OFFSET,
                                               constrained.width, constrained.height)
       IN  Update(id, newGridPos, newPosition, "resizeStop")

\* the keydown listener of a selected box, Arrow keys
GridBox_handleArrowKey(id, key, shiftKey) ==
    /\ id \in BoxIds(gboxes) /\ id \in selectedBoxIds
    /\ BoxOf(gboxes, id).absolutePosition.def
    /\ LET box == BoxOf(gboxes, id)
           step == IF shiftKey THEN CELL_SIZE ELSE CELL_SIZE \div 2
           newX == CASE key = "ArrowLeft"  -> Max(0, box.absolutePosition.x - step)
                     [] key = "ArrowRight" -> box.absolutePosition.x + step
                     [] OTHER              -> box.absolutePosition.x
           newY == CASE key = "ArrowUp"    -> Max(0, box.absolutePosition.y - step)
                     [] key = "ArrowDown"  -> box.absolutePosition.y + step
                     [] OTHER              -> box.absolutePosition.y
           newPosition == [box.absolutePosition EXCEPT !.x = newX, !.y = newY]
       IN  Update(id, box.gridPosition, newPosition, "arrow")

-----------------------------------------------------------------------------
(* The page around GridSystem: onBoxSelect, onBoxDeselect and onBoxDelete,
   after the Selection/Transition Manager (section 4.4) *)

\* Free -> GridAnchored: the absolutePosition snapped, the snapped rectangle
\* handed to handleBoxUpdate with no absolutePosition
SettleRecord(bs, sel, b) ==
    CallRecord(bs, sel, b.id,
               gridUtils_pixelToGrid(b.absolutePosition.x, b.absolutePosition.y,
                                     b.absolutePosition.width, b.absolutePosition.height),
               Undefined, "settle")

\* GridAnchored -> Free: gridToPixel attached as absolutePosition
Attach(b) ==
    [b EXCEPT !.absolutePosition = Defined(gridUtils_gridToPixel(b.gridPosition))]

Transition(newSel) ==
    LET leaving == {i \in 1..Len(gboxes) :
                       /\ gboxes[i].id \in selectedBoxIds \ newSel
                       /\ gboxes[i].absolutePosition.def}
        entering == {i \in 1..Len(gboxes) :
                       /\ gboxes[i].id \in newSel
                       /\ ~gboxes[i].absolutePosition.def}
    IN  /\ lastUpdates' = {SettleRecord(gboxes, selectedBoxIds, gboxes[i]) : i \in leaving}
        /\ gboxes' =
               [i \in 1..Len(gboxes) |->
                   IF i \in leaving
                   THEN onBoxUpdate(gboxes[i],
                            (CHOOSE rec \in lastUpdates' : rec.id = gboxes[i].id).call)
                   ELSE IF i \in entering THEN Attach(gboxes[i])
                   ELSE gboxes[i]]
        /\ selectedBoxIds' = newSel

\* GridBox.handleClick -> onSelect(box.id, e.shiftKey)
onBoxSelect(id, multiSelect) ==
    /\ id \in BoxIds(gboxes)
    /\ Transition(IF multiSelect
                  THEN IF id \in selectedBoxIds
                       THEN selectedBoxIds \ {id}
                       ELSE selectedBoxIds \cup {id}
                  ELSE {id})

\* GridSystem.handleGridClick -> onBoxDeselect()
onBoxDeselect == Transition({})

\* the keydown listener of a selected box, Delete / Backspace -> onDelete
onBoxDelete(id) ==
    /\ id \in BoxIds(gboxes) /\ id \in selectedBoxIds
    /\ gboxes' = SelectSeq(gboxes, LAMBDA b : b.id # id)
    /\ selectedBoxIds' = selectedBoxIds \ {id}
    /\ lastUpdates' = {}

-----------------------------------------------------------------------------
(* SpecGrid: the layouts GridSystem is rendered with, and the gestures *)

\* the boxes of the tallest column the probe can still step over
TowerHeight == MAX_ATTEMPTS \div MAX_ROWS_CELLS

\* the box the gestures are made on; the other boxes are what it meets
Actors == {1}

\* README's four demo boxes as GridPositions
DemoLayout ==
    << GBox(1, GridPos(1, 3, 1, 2)), GBox(2, GridPos(3, 6, 1, 3)),
       GBox(3, GridPos(6, 9, 1, 2)), GBox(4, GridPos(1, 3, 2, 4)) >>

\* one box beside a column of TowerHeight boxes, each two columns wide and
\* five rows high, stacked from row 2 down
TowerLayout ==
    << GBox(1, GridPos(5, 7, 1, 2)) >>
    \o [k \in 1..TowerHeight |->
           GBox(k + 10, GridPos(1, 3, MAX_ROWS_CELLS * (k - 1) + 2,
                                      MAX_ROWS_CELLS * k + 2))]

\* raw react-rnd coordinates (PADDING_OFFSET included)
DragPoints ==
    { [x |-> 24, y |-> 24], [x |-> 24, y |-> 104],
      [x |-> 24, y |-> 184], [x |-> 184, y |-> 24] }

\* raw sizes react-rnd reports, within its min (80) and max (800 x 400)
ResizeSizes ==
    { [width |-> 800, height |-> 80], [width |-> 150, height |-> 170] }

ArrowKeys == {"ArrowUp", "ArrowDown", "ArrowLeft", "ArrowRight"}

\* arrow keys are pressed while the box is within MaxArrowCells cells of the
\* origin
MaxArrowCells == 0

GridGestureIds == BoxIds(gboxes) \cap Actors

\* a resize by the right or bottom handle: Rnd's position stays
RndPosition(id) ==
    [x |-> BoxOf(gboxes, id).absolutePosition.x + PADDING_OFFSET,
     y |-> BoxOf(gboxes, id).absolutePosition.y + PADDING_OFFSET]

InitGrid ==
    /\ gboxes \in {DemoLayout, TowerLayout}
    /\ selectedBoxIds = {}
    /\ lastUpdates = {}
    /\ IdleFn /\ IdlePage /\ IdleHome

NextGrid ==
    \/ \E id \in GridGestureIds, multi \in BOOLEAN :
           onBoxSelect(id, multi) /\ UNCHANGED <<varsFn, varsPage, varsHome>>
    \/ onBoxDeselect /\ UNCHANGED <<varsFn, varsPage, varsHome>>
    \/ \E id \in GridGestureIds : onBoxDelete(id) /\ UNCHANGED <<varsFn, varsPage, varsHome>>
    \/ \E id \in GridGestureIds, d \in DragPoints :
           GridBox_handleDrag(id, d) /\ UNCHANGED <<varsFn, varsPage, varsHome>>
    \/ \E id \in GridGestureIds, d \in DragPoints :
           GridBox_handleDragStop(id, d) /\ UNCHANGED <<varsFn, varsPage, varsHome>>
    \/ \E id \in GridGestureIds, sz \in ResizeSizes :
           /\ IsFree(id)
           /\ GridBox_handleResize(id, sz.width, sz.height, RndPosition(id))
           /\ UNCHANGED <<varsFn, varsPage, varsHome>>
    \/ \E id \in GridGestureIds, sz \in ResizeSizes :
           /\ IsFree(id)
           /\ GridBox_handleResizeStop(id, sz.width, sz.height, RndPosition(id))
           /\ UNCHANGED <<varsFn, varsPage, varsHome>>
    \/ \E id \in GridGestureIds, key \in ArrowKeys, shift \in BOOLEAN :
           /\ IsFree(id)
           /\ BoxOf(gboxes, id).absolutePosition.x <= MaxArrowCells * CELL_SIZE
           /\ BoxOf(gboxes, id).absolutePosition.y <= MaxArrowCells * CELL_SIZE
           /\ GridBox_handleArrowKey(id, key, shift)
           /\ UNCHANGED <<varsFn, varsPage, varsHome>>

SpecGrid == InitGrid /\ [][NextGrid]_vars

-----------------------------------------------------------------------------
(* README.md, app/page.tsx (lines 139-706): Home with History.  A box id
   "box-n" is kept as n.  A BoxData is a record with col, row, colSpan,
   rowSpan, absolutePosition and isSelected; an absent optional field is
   NoAbs, respectively FALSE (only the truth of isSelected is ever read). *)

\* Number.NaN, kept as a value no grid coordinate and no span takes
NaN == 0 - 1

\* undefined, where a number is expected: a field the box of a file lacks
Missing == 0 - 2

NoAbs == [absent |-> TRUE]
HasAbs(b) == b.absolutePosition # NoAbs

BoxData(id, col, row, colSpan, rowSpan) ==
    [id |-> id, col |-> col, row |-> row, colSpan |-> colSpan, rowSpan |-> rowSpan,
     absolutePosition |-> NoAbs, isSelected |-> FALSE]

home_initialBoxes ==
    << BoxData(1, 1, 1, 2, 1), BoxData(2, 3, 1, 3, 2),
       BoxData(3, 6, 1, 3, 1), BoxData(4, 1, 2, 2, 2) >>

\* JSON.stringify writes NaN as null, and null reads as 0 in the arithmetic
\* the page applies to a restored box
jsonNumber(v) == IF v = NaN THEN 0 ELSE v

jsonBox(b) ==
    [b EXCEPT !.col = jsonNumber(@), !.row = jsonNumber(@),
              !.colSpan = jsonNumber(@),
              !.absolutePosition =
                  IF "left" \in DOMAIN @
                  THEN [@ EXCEPT !.left = jsonNumber(@), !.top = jsonNumber(@),
                                 !.width = jsonNumber(@)]
                  ELSE @]

\* JSON.parse(JSON.stringify(newBoxes))
jsonClone(bs) == [i \in 1..Len(bs) |-> jsonBox(bs[i])]

\* a push whose snapshot is also written over the entry at the cursor, as
\* when the live Layout and that entry are one object
saveToHistory_WritesThroughCursorEntry(hist, idx, newBoxes, newSelectedIds) ==
    LET entry == [boxes |-> jsonClone(newBoxes), selectedBoxIds |-> newSelectedIds]
        newHistory == Append(Append(SubSeq(hist, 1, idx), entry), entry)
    IN  [history |-> newHistory, historyIndex |-> Len(newHistory) - 1]

\* saveToHistory as the render that holds hist / idx runs it: the new
\* history and historyIndex
saveToHistory_KeepsRedoEntries(hist, idx, newBoxes, newSelectedIds) ==
    LET newHistory == Append(hist, [boxes |-> jsonClone(newBoxes),
                                    selectedBoxIds |-> newSelectedIds])
    IN  [history |-> newHistory, historyIndex |-> Len(newHistory) - 1]

saveToHistory(hist, idx, newBoxes, newSelectedIds) ==
    LET newHistory == Append(SubSeq(hist, 1, idx + 1),
                             [boxes |-> jsonClone(newBoxes),
                              selectedBoxIds |-> newSelectedIds])
    IN  [history |-> newHistory, historyIndex |-> Len(newHistory) - 1]

\* the handler that ran last, its arguments, whether its id was selected and
\* where the cursor was when it was called
Did(op, id, multiSelect) ==
    lastOp' = [op |-> op, id |-> id, multiSelect |-> multiSelect,
               wasSelected |-> id \in homeSelected,
               historyIndex |-> historyIndex]

\* an undo that moves the cursor back from the first entry as well
undo_PastTheFirstEntry(bs, selected, hist, idx) ==
    IF idx > 0
    THEN [boxes |-> hist[idx].boxes,
          selectedBoxIds |-> hist[idx].selectedBoxIds,
          historyIndex |-> idx - 1]
    ELSE [boxes |-> bs, selectedBoxIds |-> selected, historyIndex |-> idx - 1]

\* boxes, selectedBoxIds and historyIndex after handleUndo; history[n] of the
\* page is history[n + 1] here
undo_ToEarliestEntry(bs, selected, hist, idx) ==
    IF idx > 0
    THEN [boxes |-> hist[1].boxes,
          selectedBoxIds |-> hist[1].selectedBoxIds,
          historyIndex |-> 0]
    ELSE [boxes |-> bs, selectedBoxIds |-> selected, historyIndex |-> idx]

undo(bs, selected, hist, idx) ==
    IF idx > 0
    THEN [boxes |-> hist[idx].boxes,
          selectedBoxIds |-> hist[idx].selectedBoxIds,
          historyIndex |-> idx - 1]
    ELSE [boxes |-> bs, selectedBoxIds |-> selected, historyIndex |-> idx]

\* a redo that restores the boxes of the next entry and leaves the Selection
redo_KeepsSelection(bs, selected, hist, idx) ==
    IF idx < Len(hist) - 1
    THEN [boxes |-> hist[idx + 2].boxes,
          selectedBoxIds |-> selected,
          historyIndex |-> idx + 1]
    ELSE [boxes |-> bs, selectedBoxIds |-> selected, historyIndex |-> idx]

\* boxes, selectedBoxIds and historyIndex after handleRedo
redo_PastTheLatestEntry(bs, selected, hist, idx) ==
    IF idx < Len(hist)
    THEN [boxes |-> hist[Min(idx + 2, Len(hist))].boxes,
          selectedBoxIds |-> hist[Min(idx + 2, Len(hist))].selectedBoxIds,
          historyIndex |-> idx + 1]
    ELSE [boxes |-> bs, selectedBoxIds |-> selected, historyIndex |-> idx]

redo(bs, selected, hist, idx) ==
    IF idx < Len(hist) - 1
    THEN [boxes |-> hist[idx + 2].boxes,
          selectedBoxIds |-> hist[idx + 2].selectedBoxIds,
          historyIndex |-> idx + 1]
    ELSE [boxes |-> bs, selectedBoxIds |-> selected, historyIndex |-> idx]

handleUndo ==
    /\ LET after == undo(homeBoxes, homeSelected, history, historyIndex)
       IN  /\ homeBoxes' = after.boxes
           /\ homeSelected' = after.selectedBoxIds
           /\ historyIndex' = after.historyIndex
    /\ Did("undo", 0, FALSE)
    /\ UNCHANGED <<history, boxIdCounter, homeWidth>>

handleRedo ==
    /\ LET after == redo(homeBoxes, homeSelected, history, historyIndex)
       IN  /\ homeBoxes' = after.boxes
           /\ homeSelected' = after.selectedBoxIds
           /\ historyIndex' = after.historyIndex
    /\ Did("redo", 0, FALSE)
    /\ UNCHANGED <<history, boxIdCounter, homeWidth>>

\* Math.max(...boxes.map(b => b.row + b.rowSpan - 1)), NaN if any row is
maxRowOf(bs) ==
    IF Len(bs) = 0 THEN 0
    ELSE IF \E i \in 1..Len(bs) : bs[i].row \in {NaN, Missing} THEN NaN
    ELSE MaxOf({bs[i].row + bs[i].rowSpan - 1 : i \in 1..Len(bs)})

home_handleAddBox ==
    /\ LET maxRow == maxRowOf(homeBoxes)
           newBox == BoxData(boxIdCounter + 1, 1,
                             IF maxRow = NaN THEN NaN ELSE maxRow + 1, 2, 1)
           newBoxes == Append(homeBoxes, newBox)
           saved == saveToHistory(history, historyIndex, newBoxes, homeSelected)
       IN  /\ boxIdCounter' = boxIdCounter + 1
           /\ homeBoxes' = newBoxes
           /\ history' = saved.history
           /\ historyIndex' = saved.historyIndex
    /\ Did("add", 0, FALSE)
    /\ UNCHANGED <<homeSelected, homeWidth>>

\* calculateBoxPosition of a box whose col, row or colSpan may be NaN
absPosOf_FromColumnItself(b, cellWidth) ==
    LET p == calculateBoxPosition(b.col + 1, b.row, b.colSpan, b.rowSpan, cellWidth)
    IN  [left   |-> IF b.col \in {NaN, Missing} THEN NaN ELSE p.left,
         top    |-> IF b.row \in {NaN, Missing} THEN NaN ELSE p.top,
         width  |-> IF b.colSpan \in {NaN, Missing} THEN NaN ELSE p.width,
         height |-> p.height]

absPosOf(b, cellWidth) ==
    LET p == calculateBoxPosition(b.col, b.row, b.colSpan, b.rowSpan, cellWidth)
    IN  [left   |-> IF b.col \in {NaN, Missing} THEN NaN ELSE p.left,
         top    |-> IF b.row \in {NaN, Missing} THEN NaN ELSE p.top,
         width  |-> IF b.colSpan \in {NaN, Missing} THEN NaN ELSE p.width,
         height |-> IF b.rowSpan = Missing THEN NaN ELSE p.height]

\* newSet of handleBoxSelect: shift toggles id, a plain click keeps id alone
newSet_ShiftAddsOnly(selected, id, multiSelect) ==
    IF multiSelect THEN selected \cup {id} ELSE {id}

newSet(selected, id, multiSelect) ==
    IF multiSelect
    THEN IF id \in selected THEN selected \ {id} ELSE selected \cup {id}
    ELSE {id}

\* the map callback of handleBoxSelect: a box of the new selection that has no
\* absolutePosition gets one, every other box is returned as it is
withAbsPos_AlwaysRecomputed(box, newSelected, cellWidth) ==
    IF box.id \in newSelected
    THEN [box EXCEPT !.absolutePosition = absPosOf(box, cellWidth)]
    ELSE box

withAbsPos(box, newSelected, cellWidth) ==
    IF box.id \in newSelected /\ ~HasAbs(box)
    THEN [box EXCEPT !.absolutePosition = absPosOf(box, cellWidth)]
    ELSE box

handleBoxSelect(id, multiSelect) ==
    /\ LET newSelected == newSet(homeSelected, id, multiSelect)
           cellWidth == calculateCellWidth(homeWidth)
       IN  /\ homeSelected' = newSelected
           /\ homeBoxes' =
                  [i \in 1..Len(homeBoxes) |->
                      withAbsPos(homeBoxes[i], newSelected, cellWidth)]
    /\ Did("select", id, multiSelect)
    /\ UNCHANGED <<history, historyIndex, boxIdCounter, homeWidth>>

\* snapToGrid then clampToGrid of an absolutePosition read through .x, .y,
\* .width, .height; an object without x and y gives NaN for col and row, and
\* Math.min(colSpan, NaN) makes colSpan NaN as well
snapOfAbs(abs, cellWidth) ==
    IF "x" \in DOMAIN abs
    THEN snap(abs.x, abs.y, abs.width, abs.height, cellWidth)
    ELSE [col |-> NaN, row |-> NaN, colSpan |-> NaN,
          rowSpan |-> snap(0, 0, 0, abs.height, cellWidth).rowSpan]

\* handleBoxDeselect, with the saveToHistory its timer runs: the schedule in
\* which the callback runs before the next event (SpecTimers has the others)
handleBoxDeselect ==
    /\ LET cellWidth == calculateCellWidth(homeWidth)
           updatedBoxes ==
               [i \in 1..Len(homeBoxes) |->
                   IF homeBoxes[i].isSelected /\ HasAbs(homeBoxes[i])
                   THEN LET clamped == snapOfAbs(homeBoxes[i].absolutePosition, cellWidth)
                        IN  [homeBoxes[i] EXCEPT
                                !.col = clamped.col, !.row = clamped.row,
                                !.colSpan = clamped.colSpan, !.rowSpan = clamped.rowSpan,
                                !.absolutePosition = NoAbs]
                   ELSE homeBoxes[i]]
           saved == saveToHistory(history, historyIndex, updatedBoxes, {})
       IN  /\ homeBoxes' = updatedBoxes
           /\ history' = saved.history
           /\ historyIndex' = saved.historyIndex
    /\ homeSelected' = {}
    /\ Did("deselect", 0, FALSE)
    /\ UNCHANGED <<boxIdCounter, homeWidth>>

\* handleBoxUpdate(id, data) with data = { absolutePosition }
home_handleBoxUpdate_SnapsEachFrame(id, absolutePosition) ==
    /\ homeBoxes' =
           [i \in 1..Len(homeBoxes) |->
               IF homeBoxes[i].id = id
               THEN LET clamped == snapOfAbs(absolutePosition,
                                            calculateCellWidth(homeWidth))
                    IN  [homeBoxes[i] EXCEPT !.absolutePosition = absolutePosition,
                                             !.isSelected = id \in homeSelected,
                                             !.col = clamped.col, !.row = clamped.row]
               ELSE homeBoxes[i]]
    /\ Did("update", id, FALSE)
    /\ UNCHANGED <<homeSelected, history, historyIndex, boxIdCounter, homeWidth>>

home_handleBoxUpdate(id, absolutePosition) ==
    /\ homeBoxes' =
           [i \in 1..Len(homeBoxes) |->
               IF homeBoxes[i].id = id
               THEN [homeBoxes[i] EXCEPT !.absolutePosition = absolutePosition,
                                         !.isSelected = id \in homeSelected]
               ELSE homeBoxes[i]]
    /\ Did("update", id, FALSE)
    /\ UNCHANGED <<homeSelected, history, historyIndex, boxIdCounter, homeWidth>>

handleBoxDelete(id) ==
    /\ LET newBoxes == SelectSeq(homeBoxes, LAMBDA b : b.id # id)
           newSelectedIds == homeSelected \ {id}
           saved == saveToHistory(history, historyIndex, newBoxes, newSelectedIds)
       IN  /\ homeBoxes' = newBoxes
           /\ homeSelected' = newSelectedIds
           /\ history' = saved.history
           /\ historyIndex' = saved.historyIndex
    /\ Did("delete", id, FALSE)
    /\ UNCHANGED <<boxIdCounter, homeWidth>>

\* handleKeyDown, Delete / Backspace: selectedBoxIds.forEach(handleBoxDelete).
\* Every call closes over the selectedBoxIds, history and historyIndex of the
\* render the key was pressed in, and the updaters chain on prevBoxes: what
\* the call for the last id sets is what stays.
handleKeyDownDelete(lastId) ==
    /\ homeSelected # {}
    /\ lastId \in homeSelected
    /\ LET newBoxes == SelectSeq(homeBoxes, LAMBDA b : b.id \notin homeSelected)
           newSelectedIds == homeSelected \ {lastId}
           saved == saveToHistory(history, historyIndex, newBoxes, newSelectedIds)
       IN  /\ homeBoxes' = newBoxes
           /\ homeSelected' = newSelectedIds
           /\ history' = saved.history
           /\ historyIndex' = saved.historyIndex
    /\ Did("deleteKey", lastId, FALSE)
    /\ UNCHANGED <<boxIdCounter, homeWidth>>

home_handleClearAll(confirmed) ==
    /\ Len(homeBoxes) # 0
    /\ confirmed
    /\ LET saved == saveToHistory(history, historyIndex, << >>, {})
       IN  /\ homeBoxes' = << >>
           /\ homeSelected' = {}
           /\ history' = saved.history
           /\ historyIndex' = saved.historyIndex
    /\ Did("clear", 0, FALSE)
    /\ UNCHANGED <<boxIdCounter, homeWidth>>

\* the boxes of exportData as JSON.stringify writes them
exportedBoxes(bs) ==
    [i \in 1..Len(bs) |->
        [id |-> bs[i].id, col |-> jsonNumber(bs[i].col), row |-> jsonNumber(bs[i].row),
         colSpan |-> jsonNumber(bs[i].colSpan), rowSpan |-> jsonNumber(bs[i].rowSpan)]]

\* handleExport: the parsed content of the file it writes
handleExport(bs) == [kind |-> "boxes", boxes |-> exportedBoxes(bs)]

\* ids the file's boxes get: boxData.id || `box-${++boxIdCounter.current}`,
\* a missing id being 0 in the file
RECURSIVE importedFrom_SkipsBoxesWithoutId(_, _)
importedFrom_SkipsBoxesWithoutId(file, counter) ==
    IF Len(file) = 0 THEN [boxes |-> << >>, counter |-> counter]
    ELSE LET boxData == Head(file)
             rest == importedFrom_SkipsBoxesWithoutId(Tail(file), counter)
         IN  [boxes |-> (IF boxData.id = 0 THEN << >>
                         ELSE << BoxData(boxData.id, boxData.col, boxData.row,
                                         boxData.colSpan, boxData.rowSpan) >>)
                        \o rest.boxes,
              counter |-> rest.counter]

RECURSIVE importedFrom(_, _)
importedFrom(file, counter) ==
    IF Len(file) = 0 THEN [boxes |-> << >>, counter |-> counter]
    ELSE LET boxData == Head(file)
             newCounter == IF boxData.id = 0 THEN counter + 1 ELSE counter
             rest == importedFrom(Tail(file), newCounter)
         IN  [boxes |-> << BoxData(IF boxData.id = 0 THEN newCounter ELSE boxData.id,
                                   boxData.col, boxData.row,
                                   boxData.colSpan, boxData.rowSpan) >> \o rest.boxes,
              counter |-> rest.counter]

\* reader.onload of handleImport.  data.kind tells what the file holds:
\* "malformed" (JSON.parse throws), "boxes" (an object whose boxes is an
\* array), "array" (a top-level array), "noBoxes" (an object without boxes),
\* "boxesNotArray" (an object whose boxes is no array).  lastOp.data is the
\* file and lastOp.alert tells whether the catch block called alert.
home_handleImport(data) ==
    /\ IF data.kind = "boxes"
       THEN /\ LET imported == importedFrom(data.boxes, boxIdCounter)
                   saved == saveToHistory(history, historyIndex, imported.boxes, {})
               IN  /\ homeBoxes' = imported.boxes
                   /\ boxIdCounter' = imported.counter
                   /\ history' = saved.history
                   /\ historyIndex' = saved.historyIndex
            /\ homeSelected' = {}
       ELSE UNCHANGED <<homeBoxes, homeSelected, history, historyIndex, boxIdCounter>>
    /\ lastOp' = [op |-> "import", id |-> 0, multiSelect |-> FALSE,
                  wasSelected |-> FALSE, historyIndex |-> historyIndex,
                  data |-> data, alert |-> data.kind = "malformed"]
    /\ UNCHANGED homeWidth

-----------------------------------------------------------------------------
(* SpecHome: the README page under its gestures *)

\* container.clientWidth as the width effect reads it at mount; the window
\* is not resized afterwards
HomeWidth == 944

\* commits are made while the history holds fewer than MaxHistory entries
MaxHistory == 3
\* boxes are created while boxIdCounter stays at or below MaxBoxIdCounter
MaxBoxIdCounter == 5

\* the boxes the Grid reports clicks and gestures on
HomeActors == {1, 2}
HomeGestureIds == BoxIds(homeBoxes) \cap HomeActors
\* the box that is dragged
HomeDragged == {1}

\* absolutePosition objects the Grid reports for a dragged or resized box
HomeUpdates ==
    { [x |-> 192, y |-> 0, width |-> 176, height |-> 80] }

\* files: an exported layout holding box-5, and one whose box has no id
ImportFiles ==
    { [kind |-> "boxes",
       boxes |-> << [id |-> 5, col |-> 1, row |-> 1, colSpan |-> 2, rowSpan |-> 1] >>],
      [kind |-> "boxes",
       boxes |-> << [id |-> 1, col |-> 1, row |-> 1, colSpan |-> 2, rowSpan |-> 1],
                    [id |-> 0, col |-> 3, row |-> 1, colSpan |-> 2, rowSpan |-> 1] >>] }

\* the state after mount: the history effect has saved the initial boxes and
\* the width effect has read the container
InitHome ==
    /\ homeBoxes = home_initialBoxes
    /\ homeSelected = {}
    /\ history = << [boxes |-> jsonClone(home_initialBoxes), selectedBoxIds |-> {}] >>
    /\ historyIndex = 0
    /\ boxIdCounter = 4
    /\ homeWidth = HomeWidth
    /\ timers = << >>
    /\ lastOp = [op |-> "none"]
    /\ IdleFn /\ IdlePage /\ IdleGrid

NextHome ==
    \/ handleUndo /\ UNCHANGED <<varsFn, varsPage, varsGrid, timers>>
    \/ handleRedo /\ UNCHANGED <<varsFn, varsPage, varsGrid, timers>>
    \/ /\ Len(history) < MaxHistory
       /\ boxIdCounter < MaxBoxIdCounter
       /\ home_handleAddBox
       /\ UNCHANGED <<varsFn, varsPage, varsGrid, timers>>
    \/ \E id \in HomeGestureIds, multi \in BOOLEAN :
           handleBoxSelect(id, multi) /\ UNCHANGED <<varsFn, varsPage, varsGrid, timers>>
    \/ /\ Len(history) < MaxHistory
       /\ handleBoxDeselect
       /\ UNCHANGED <<varsFn, varsPage, varsGrid, timers>>
    \/ \E id \in HomeGestureIds \cap HomeDragged, abs \in HomeUpdates :
           /\ id \in homeSelected
           /\ HasAbs(BoxOf(homeBoxes, id))
           /\ home_handleBoxUpdate(id, abs)
           /\ UNCHANGED <<varsFn, varsPage, varsGrid, timers>>
    \/ \E id \in HomeGestureIds :
           /\ Len(history) < MaxHistory
           /\ handleBoxDelete(id)
           /\ UNCHANGED <<varsFn, varsPage, varsGrid, timers>>
    \/ \E id \in homeSelected :
           /\ Len(history) < MaxHistory
           /\ handleKeyDownDelete(id)
           /\ UNCHANGED <<varsFn, varsPage, varsGrid, timers>>
    \/ \E c \in BOOLEAN :
           /\ Len(history) < MaxHistory
           /\ home_handleClearAll(c)
           /\ UNCHANGED <<varsFn, varsPage, varsGrid, timers>>
    \/ \E file \in ImportFiles :
           /\ Len(history) < MaxHistory
           /\ importedFrom(file.boxes, boxIdCounter).counter <= MaxBoxIdCounter
           /\ home_handleImport(file)
           /\ UNCHANGED <<varsFn, varsPage, varsGrid, timers>>

SpecHome == InitHome /\ [][NextHome]_vars

-----------------------------------------------------------------------------
(* SpecSettle: one box of the README page selected, dragged and released
   again and again, with boxes added and deleted in between *)

\* commits are made while the history holds fewer than MaxSettleHistory entries
MaxSettleHistory == 4

SettleActor == 1
SettleDeleted == 2

NextSettle ==
    \/ /\ SettleActor \in BoxIds(homeBoxes)
       /\ handleBoxSelect(SettleActor, FALSE)
       /\ UNCHANGED <<varsFn, varsPage, varsGrid, timers>>
    \/ \E abs \in HomeUpdates :
           /\ SettleActor \in homeSelected
           /\ HasAbs(BoxOf(homeBoxes, SettleActor))
           /\ home_handleBoxUpdate(SettleActor, abs)
           /\ UNCHANGED <<varsFn, varsPage, varsGrid, timers>>
    \/ /\ Len(history) < MaxSettleHistory
       /\ handleBoxDeselect
       /\ UNCHANGED <<varsFn, varsPage, varsGrid, timers>>
    \/ /\ Len(history) < MaxSettleHistory
       /\ boxIdCounter < MaxBoxIdCounter
       /\ home_handleAddBox
       /\ UNCHANGED <<varsFn, varsPage, varsGrid, timers>>
    \/ /\ Len(history) < MaxSettleHistory
       /\ SettleDeleted \in BoxIds(homeBoxes)
       /\ handleBoxDelete(SettleDeleted)
       /\ UNCHANGED <<varsFn, varsPage, varsGrid, timers>>

SpecSettle == InitHome /\ [][NextSettle]_vars

-----------------------------------------------------------------------------
(* SpecEvents: the README page under events that name a box which is no
   longer there, and under files of every kind the file input can be given *)

\* commits are made while the history holds fewer than MaxEventHistory entries
MaxEventHistory == 3

\* the boxes the Grid reports events of, also after they were deleted
EventIds == {1, 2}

\* files: no JSON, a top-level array, an object without boxes, an object
\* whose boxes is a string, a box without col, and a box without id
EventFiles ==
    { [kind |-> "malformed"],
      [kind |-> "array",
       items |-> << [id |-> 6, col |-> 1, row |-> 1, colSpan |-> 2, rowSpan |-> 1] >>],
      [kind |-> "noBoxes"],
      [kind |-> "boxesNotArray"],
      [kind |-> "boxes",
       boxes |-> << [id |-> 7, col |-> Missing, row |-> 1, colSpan |-> 2, rowSpan |-> 1] >>],
      [kind |-> "boxes",
       boxes |-> << [id |-> 0, col |-> 5, row |-> 2, colSpan |-> 2, rowSpan |-> 1],
                    [id |-> 2, col |-> 1, row |-> 1, colSpan |-> 3, rowSpan |-> 2] >>] }

\* a file with a boxes array is read while the commit and the ids fit the bounds
FitsBounds(data) ==
    data.kind = "boxes" =>
        /\ Len(history) < MaxEventHistory
        /\ importedFrom(data.boxes, boxIdCounter).counter <= MaxBoxIdCounter

NextEvents ==
    \/ \E id \in EventIds, multi \in BOOLEAN :
           handleBoxSelect(id, multi) /\ UNCHANGED <<varsFn, varsPage, varsGrid, timers>>
    \/ \E id \in EventIds, abs \in HomeUpdates :
           /\ \/ id \notin BoxIds(homeBoxes)
              \/ /\ id \in BoxIds(homeBoxes)
                 /\ id \in homeSelected
                 /\ HasAbs(BoxOf(homeBoxes, id))
           /\ home_handleBoxUpdate(id, abs)
           /\ UNCHANGED <<varsFn, varsPage, varsGrid, timers>>
    \/ \E id \in EventIds :
           /\ Len(history) < MaxEventHistory
           /\ handleBoxDelete(id)
           /\ UNCHANGED <<varsFn, varsPage, varsGrid, timers>>
    \/ \E data \in EventFiles :
           /\ FitsBounds(data)
           /\ home_handleImport(data)
           /\ UNCHANGED <<varsFn, varsPage, varsGrid, timers>>
    \/ /\ FitsBounds(handleExport(homeBoxes))
       /\ home_handleImport(handleExport(homeBoxes))
       /\ UNCHANGED <<varsFn, varsPage, varsGrid, timers>>

SpecEvents == InitHome /\ [][NextEvents]_vars

-----------------------------------------------------------------------------
(* SpecTimers: handleBoxDeselect with its setTimeout as a step of its own.
   The callback queued at line 305 closes over updatedBoxes and over the
   saveToHistory of the render handleBoxDeselect was made in, which reads the
   history and historyIndex of that render; a handler that runs before the
   callback does not change what the callback holds. *)

\* updatedBoxes of handleBoxDeselect, lines 284-302
updatedBoxesOf(bs, width) ==
    [i \in 1..Len(bs) |->
        IF bs[i].isSelected /\ HasAbs(bs[i])
        THEN LET clamped == snapOfAbs(bs[i].absolutePosition, calculateCellWidth(width))
             IN  [bs[i] EXCEPT
                     !.col = clamped.col, !.row = clamped.row,
                     !.colSpan = clamped.colSpan, !.rowSpan = clamped.rowSpan,
                     !.absolutePosition = NoAbs]
        ELSE bs[i]]

\* handleBoxDeselect up to its return: setBoxes, setSelectedBoxIds, and the
\* callback queued
handleBoxDeselect_Event ==
    /\ homeBoxes' = updatedBoxesOf(homeBoxes, homeWidth)
    /\ homeSelected' = {}
    /\ timers' = Append(timers, [updatedBoxes |-> updatedBoxesOf(homeBoxes, homeWidth),
                                 history |-> history,
                                 historyIndex |-> historyIndex])
    /\ Did("deselect", 0, FALSE)
    /\ UNCHANGED <<history, historyIndex, boxIdCounter, homeWidth>>

\* the callback of lines 305-307: saveToHistory(updatedBoxes, new Set()) with
\* the history and historyIndex it closed over
timeoutOf(timer) ==
    saveToHistory(timer.history, timer.historyIndex, timer.updatedBoxes, {})

\* the oldest queued callback runs
handleBoxDeselect_Timeout ==
    /\ timers # << >>
    /\ LET saved == timeoutOf(Head(timers))
       IN  /\ history' = saved.history
           /\ historyIndex' = saved.historyIndex
    /\ timers' = Tail(timers)
    /\ Did("timeout", 0, FALSE)
    /\ UNCHANGED <<homeBoxes, homeSelected, boxIdCounter, homeWidth>>

\* deselects and commits are made while the history holds fewer than
\* MaxTimerHistory entries, a deselect while no callback is queued
MaxTimerHistory == 2

TimerActor == 1
TimerDeleted == 2

NextTimers ==
    \/ /\ TimerActor \in BoxIds(homeBoxes)
       /\ handleBoxSelect(TimerActor, FALSE)
       /\ UNCHANGED <<varsFn, varsPage, varsGrid, timers>>
    \/ \E abs \in HomeUpdates :
           /\ TimerActor \in homeSelected
           /\ HasAbs(BoxOf(homeBoxes, TimerActor))
           /\ home_handleBoxUpdate(TimerActor, abs)
           /\ UNCHANGED <<varsFn, varsPage, varsGrid, timers>>
    \/ /\ Len(history) < MaxTimerHistory
       /\ timers = << >>
       /\ handleBoxDeselect_Event
       /\ UNCHANGED <<varsFn, varsPage, varsGrid>>
    \/ /\ handleBoxDeselect_Timeout
       /\ UNCHANGED <<varsFn, varsPage, varsGrid>>
    \/ /\ Len(history) < MaxTimerHistory
       /\ boxIdCounter < MaxBoxIdCounter
       /\ home_handleAddBox
       /\ UNCHANGED <<varsFn, varsPage, varsGrid, timers>>
    \/ /\ Len(history) < MaxTimerHistory
       /\ TimerDeleted \in BoxIds(homeBoxes)
       /\ handleBoxDelete(TimerDeleted)
       /\ UNCHANGED <<varsFn, varsPage, varsGrid, timers>>
    \/ /\ Len(history) < MaxTimerHistory
       /\ home_handleClearAll(TRUE)
       /\ UNCHANGED <<varsFn, varsPage, varsGrid, timers>>
    \/ \E file \in ImportFiles :
           /\ Len(history) < MaxTimerHistory
           /\ importedFrom(file.boxes, boxIdCounter).counter <= MaxBoxIdCounter
           /\ home_handleImport(file)
           /\ UNCHANGED <<varsFn, varsPage, varsGrid, timers>>
    \/ /\ handleUndo
       /\ UNCHANGED <<varsFn, varsPage, varsGrid, timers>>
    \/ /\ handleRedo
       /\ UNCHANGED <<varsFn, varsPage, varsGrid, timers>>

SpecTimers == InitHome /\ [][NextTimers]_vars

-----------------------------------------------------------------------------
(* Properties *)

\* C1 (as claimed): in every reachable state no two grid-anchored boxes
\* (boxes not in the Selection) have grid rectangles that overlap.
C1_NoOverlapAmongAnchored ==
    \A i, j \in 1..Len(boxes) :
        (i # j /\ boxes[i].id \notin selectedIds /\ boxes[j].id \notin selectedIds) =>
            ~doGridPositionsOverlap(toGridPosition(boxes[i]), toGridPosition(boxes[j]))

\* C2 (as claimed): in every reachable state every box of the Layout has
\* col >= 1, row >= 1, 1 <= colSpan <= 5, 1 <= rowSpan <= 5 and
\* col + colSpan - 1 <= 10.
C2_BoxInvariants ==
    \A i \in 1..Len(boxes) :
        /\ boxes[i].col >= 1
        /\ boxes[i].row >= 1
        /\ boxes[i].colSpan \in 1..5
        /\ boxes[i].rowSpan \in 1..5
        /\ boxes[i].col + boxes[i].colSpan - 1 <= GRID_COLUMNS

InCellWidth == calculateCellWidth(input.containerWidth)
RoundedCol == MathRound(input.x, InCellWidth + GRID_GAP) + 1
RoundedColSpan == MathRound(input.width, InCellWidth + GRID_GAP)

\* C3: snapToGrid followed by clampToGrid returns, for every pixel rectangle
\* (negative and huge ones included) and every positive cell width, a
\* rectangle with col in 1..10, row >= 1, both spans >= 1 and
\* col + colSpan - 1 <= 10; a rectangle that rounds to col 9, colSpan 3
\* comes out as col 9, colSpan 2.
C3_ClampTotality ==
    out.fn = "snap" =>
        /\ out.r.col \in 1..GRID_COLUMNS
        /\ out.r.row >= 1
        /\ out.r.colSpan >= 1
        /\ out.r.rowSpan >= 1
        /\ out.r.col + out.r.colSpan - 1 <= GRID_COLUMNS
        /\ (RoundedCol = 9 /\ RoundedColSpan = 3) =>
               (out.r.col = 9 /\ out.r.colSpan = 2)

C3_Witness ==
    /\ out.fn = "snap"
    /\ RoundedCol = 9 /\ RoundedColSpan = 3
    /\ out.r.col = 9 /\ out.r.colSpan = 2

C3_WitnessNegativeHuge ==
    /\ out.fn = "snap"
    /\ input.x < 0 /\ input.y < 0 /\ input.width > 100000
    /\ out.r = [col |-> 1, row |-> 1, colSpan |-> 10, rowSpan |-> 1]

\* C4 (as claimed): every snapping function returns colSpan and rowSpan
\* within 1..5 whatever the width and height of the pixel rectangle.
C4_SpansAtMostFive ==
    /\ out.fn \in {"snapToGrid", "snap", "pixelToGrid"} =>
           (out.r.colSpan \in 1..5 /\ out.r.rowSpan \in 1..5)
    /\ out.fn = "gridUtils_pixelToGrid" =>
           /\ out.g.colEnd - out.g.colStart \in 1..5
           /\ out.g.rowEnd - out.g.rowStart \in 1..5

\* C6 (as claimed): for every valid grid rectangle r and every cell width,
\* converting r to pixels and back returns r.
C6_RoundTrip ==
    /\ out.fn \in {"roundTrip", "roundTripUtils"} => out.r = input.r
    /\ out.fn = "roundTripGridUtils" => out.g = toGridPosition(input.r)

\* C6 (amended): the round trip returns r for every valid grid rectangle r
\* and every grid math whose cell width is at least the gap (16 pixels).
C6_RoundTripCellAtLeastGap ==
    (input.kind = "grid" /\ InCellWidth >= GRID_GAP) => C6_RoundTrip

C6_Witness ==
    /\ out.fn = "roundTrip"
    /\ InCellWidth = GRID_GAP
    /\ input.r.colSpan >= 2 /\ input.r.rowSpan >= 2 /\ input.r.col >= 2
    /\ out.r = input.r

\* C7 (as claimed): every snapping function maps a pixel rectangle whose
\* rounded column exceeds 10 to col = 10 with colSpan = 1, and none returns
\* a column start above 10 or an empty column range.
C7_ColumnPastLastForced ==
    /\ out.fn \in {"snapToGrid", "snap"} =>
           /\ out.r.col <= GRID_COLUMNS /\ out.r.colSpan >= 1
           /\ RoundedCol > GRID_COLUMNS => (out.r.col = GRID_COLUMNS /\ out.r.colSpan = 1)
    /\ out.fn = "pixelToGrid" =>
           /\ out.r.col <= GRID_COLUMNS /\ out.r.colSpan >= 1
           /\ RoundedCol > GRID_COLUMNS => (out.r.col = GRID_COLUMNS /\ out.r.colSpan = 1)
    /\ out.fn = "gridUtils_pixelToGrid" =>
           /\ out.g.colStart <= GRID_COLUMNS /\ out.g.colEnd > out.g.colStart
           /\ MathRound(input.x, CELL_SIZE) + 1 > GRID_COLUMNS =>
                  (out.g.colStart = GRID_COLUMNS /\ out.g.colEnd = GRID_COLUMNS + 1)

\* the grid cells a GridPosition covers, columns and rows as half-open ranges
CellsOf(p) == (p.colStart..(p.colEnd - 1)) \X (p.rowStart..(p.rowEnd - 1))

\* C8: the overlap test is true exactly when the column ranges and the row
\* ranges both intersect as half-open ranges [start, end); rectangles that
\* touch along an edge or at a corner do not overlap; the test is symmetric.
C8_OverlapIsHalfOpenIntersection ==
    out.fn = "overlap" =>
        /\ out.ab <=> (CellsOf(input.a) \cap CellsOf(input.b) # {})
        /\ out.ab = out.ba

C8_Witness ==
    /\ out.fn = "overlap"
    /\ input.a.colEnd = input.b.colStart
    /\ input.a.rowStart = input.b.rowStart
    /\ ~out.ab /\ ~out.ba

\* C5: every resize update of a Free box leaves its absolutePosition with a
\* width and a height between one cell and five cells.
C5_ResizeWithinOneToFiveCells ==
    \A rec \in lastUpdates :
        rec.gesture \in {"resize", "resizeStop"} =>
            /\ rec.call.absolutePosition.width >= CELL_SIZE
            /\ rec.call.absolutePosition.width <= 5 * CELL_SIZE
            /\ rec.call.absolutePosition.height >= CELL_SIZE
            /\ rec.call.absolutePosition.height <= 5 * CELL_SIZE

ShiftDown(pos, k) == [pos EXCEPT !.rowStart = @ + k, !.rowEnd = @ + k]

\* the two rectangles share a cell: both half-open ranges intersect
RectsIntersect(a, b) ==
    /\ Max(a.colStart, b.colStart) < Min(a.colEnd, b.colEnd)
    /\ Max(a.rowStart, b.rowStart) < Min(a.rowEnd, b.rowEnd)

MeetsAny(pos, others) == \E o \in others : RectsIntersect(pos, o)

IsCommit(rec) == ~rec.free

MinOf(S) == CHOOSE m \in S : \A n \in S : m <= n

\* the offsets below MAX_ATTEMPTS at which the candidate meets no other box
FreeOffsets(rec) ==
    {k \in 1..(MAX_ATTEMPTS - 1) : ~MeetsAny(ShiftDown(rec.candidate, k), rec.others)}

\* C9: a committed candidate that overlaps another unselected box, with a
\* collision-free row offset below 100, is placed at the smallest such offset
\* k >= 1: same columns, same spans, row increased by k.
C9_PlacedAtSmallestFreeOffset ==
    \A rec \in lastUpdates :
        ( /\ IsCommit(rec)
          /\ MeetsAny(rec.candidate, rec.others)
          /\ FreeOffsets(rec) # {} ) =>
            /\ rec.id \in BoxIds(gboxes)
            /\ BoxOf(gboxes, rec.id).gridPosition
                   = ShiftDown(rec.candidate, MinOf(FreeOffsets(rec)))
            /\ ~BoxOf(gboxes, rec.id).absolutePosition.def

\* a commit placed at the last offset the probe accepts
C9_Witness ==
    \E rec \in lastUpdates :
        /\ IsCommit(rec)
        /\ MeetsAny(rec.candidate, rec.others)
        /\ FreeOffsets(rec) # {}
        /\ MinOf(FreeOffsets(rec)) = MAX_ATTEMPTS - 1
        /\ BoxOf(gboxes, rec.id).gridPosition = ShiftDown(rec.candidate, MAX_ATTEMPTS - 1)

\* no offset from 0 to MAX_ATTEMPTS frees the candidate
Exhausts(rec) ==
    /\ IsCommit(rec)
    /\ \A k \in 0..MAX_ATTEMPTS : MeetsAny(ShiftDown(rec.candidate, k), rec.others)

\* C10: when the probe exhausts its 100 attempts the box keeps a position
\* that overlaps no other grid-anchored box.
C10_ExhaustedProbeKeepsCollisionFree ==
    \A rec \in lastUpdates :
        Exhausts(rec) =>
            /\ rec.id \in BoxIds(gboxes)
            /\ ~MeetsAny(BoxOf(gboxes, rec.id).gridPosition, rec.others)

\* C11 (as claimed): in every reachable state a box carries an
\* absolutePosition exactly when its id is in the Selection
C11_AbsolutePositionIffSelected ==
    \A i \in 1..Len(homeBoxes) :
        HasAbs(homeBoxes[i]) <=> homeBoxes[i].id \in homeSelected

\* C12 (as claimed): in every reachable state the Selection holds only ids
\* of boxes of the Layout, so a deleted box's id has left the Selection
C12_SelectionWithinLayout ==
    homeSelected \subseteq BoxIds(homeBoxes)

\* C13 (as claimed): in every state reached by adds, deletes, clear-all,
\* imports, undo and redo no two boxes of the Layout have the same id
C13_UniqueIds ==
    \A i, j \in 1..Len(homeBoxes) :
        homeBoxes[i].id = homeBoxes[j].id => i = j

\* a box whose col, row and colSpan are numbers
IsGridRect(b) == b.col # NaN /\ b.row # NaN /\ b.colSpan # NaN

\* C14: a select step that brings a box without absolutePosition into the
\* Selection gives that box the pixel rectangle of its col, row, colSpan and
\* rowSpan under the current cell width, keeps its grid fields and leaves
\* every other box as it was
C14_SelectAttachesGridToPixel ==
    [][lastOp'.op = "select" =>
        \A i \in 1..Len(homeBoxes) :
            LET b == homeBoxes[i]
            IN  ( /\ b.id \notin homeSelected
                  /\ b.id \in homeSelected'
                  /\ ~HasAbs(b)
                  /\ IsGridRect(b) )
                => /\ Len(homeBoxes') = Len(homeBoxes)
                   /\ homeBoxes'[i] =
                        [b EXCEPT !.absolutePosition =
                            calculateBoxPosition(b.col, b.row, b.colSpan, b.rowSpan,
                                                 calculateCellWidth(homeWidth))]
                   /\ \A j \in 1..Len(homeBoxes) :
                        j # i => homeBoxes'[j] = homeBoxes[j]]_vars

\* box-2 (col 3, row 1, 3 x 2 cells) has just entered the Selection and holds
\* its pixel rectangle at cell width 80
C14_Witness ==
    /\ lastOp.op = "select" /\ lastOp.id = 2 /\ ~lastOp.wasSelected
    /\ 2 \in homeSelected
    /\ \E i \in 1..Len(homeBoxes) :
          /\ homeBoxes[i].id = 2
          /\ homeBoxes[i].col = 3 /\ homeBoxes[i].colSpan = 3
          /\ homeBoxes[i].absolutePosition =
                [left |-> 192, top |-> 0, width |-> 272, height |-> 176]

\* a step that is a plain click on a box id that is already selected
PlainReselect ==
    /\ lastOp'.op = "select"
    /\ ~lastOp'.multiSelect
    /\ lastOp'.id \in homeSelected

\* C15 (as claimed): a plain click on an already selected box id leaves the
\* Selection and that box's absolutePosition unchanged
C15_ReselectChangesNothing ==
    [][PlainReselect =>
        /\ homeSelected' = homeSelected
        /\ \A i \in 1..Len(homeBoxes) :
              homeBoxes[i].id = lastOp'.id =>
                  homeBoxes'[i].absolutePosition = homeBoxes[i].absolutePosition]_vars

\* C15 (amended): a plain click on an already selected box id i leaves that
\* box's absolutePosition unchanged, also one moved by a drag, and makes the
\* Selection {i}: the Selection is unchanged exactly when i was the only
\* selected id, and any other selected id leaves it
C15_ReselectKeepsBoxAndSelectsItAlone ==
    [][PlainReselect =>
        /\ homeSelected' = {lastOp'.id}
        /\ (homeSelected' = homeSelected) <=> (homeSelected = {lastOp'.id})
        /\ \A i \in 1..Len(homeBoxes) :
              homeBoxes[i].id = lastOp'.id =>
                  homeBoxes'[i].absolutePosition = homeBoxes[i].absolutePosition]_vars

\* box-1, selected and dragged to x = 192, has been plain-clicked again
C15_Witness ==
    /\ lastOp.op = "select" /\ lastOp.id = 1 /\ ~lastOp.multiSelect
    /\ lastOp.wasSelected
    /\ homeSelected = {1}
    /\ \E i \in 1..Len(homeBoxes) :
          /\ homeBoxes[i].id = 1
          /\ homeBoxes[i].absolutePosition =
                [x |-> 192, y |-> 0, width |-> 176, height |-> 80]

\* a box's col, row, colSpan, rowSpan as a rectangle of cells
HomeRect(g) ==
    [colStart |-> g.col, colEnd |-> g.col + g.colSpan,
     rowStart |-> g.row, rowEnd |-> g.row + g.rowSpan]

\* the row the collision resolver gives a snapped rectangle: moved down by the
\* smallest offset at which it meets no grid-anchored box
ResolvedRow(g, anchored) ==
    LET ks == {k \in 0..(MAX_ATTEMPTS - 1) :
                  ~MeetsAny(ShiftDown(HomeRect(g), k), anchored)}
    IN  IF ks = {} THEN g.row ELSE g.row + MinOf(ks)

\* the pixel rectangle an absolutePosition holds, whichever names its
\* fields have
AbsRect(abs) ==
    IF "x" \in DOMAIN abs THEN abs
    ELSE [x |-> abs.left, y |-> abs.top, width |-> abs.width, height |-> abs.height]

\* C16 (as claimed): a deselect-all step empties the Selection, takes the
\* absolutePosition off every box that had one and sets its col, row, colSpan,
\* rowSpan to the snap of that absolutePosition, moved down past the
\* grid-anchored boxes by the collision resolver, and appends exactly one
\* History entry holding the result
C16_DeselectAllSettlesEveryFreeBox ==
    [][lastOp'.op = "deselect" =>
        /\ homeSelected' = {}
        /\ Len(homeBoxes') = Len(homeBoxes)
        /\ \A i \in 1..Len(homeBoxes) :
              HasAbs(homeBoxes[i]) =>
                  LET r == AbsRect(homeBoxes[i].absolutePosition)
                      s == snap(r.x, r.y, r.width, r.height,
                                calculateCellWidth(homeWidth))
                      anchored == {HomeRect(homeBoxes[j]) :
                                      j \in {k \in 1..Len(homeBoxes) :
                                                ~HasAbs(homeBoxes[k])}}
                  IN  /\ ~HasAbs(homeBoxes'[i])
                      /\ homeBoxes'[i].col = s.col
                      /\ homeBoxes'[i].row = ResolvedRow(s, anchored)
                      /\ homeBoxes'[i].colSpan = s.colSpan
                      /\ homeBoxes'[i].rowSpan = s.rowSpan
        /\ history' = Append(SubSeq(history, 1, historyIndex + 1),
                             [boxes |-> homeBoxes', selectedBoxIds |-> {}])
        /\ historyIndex' = Len(history') - 1]_vars

\* C17 (as claimed): a box that leaves the Selection in a select step (another
\* box is plain-clicked, or the box is shift-clicked off) is settled as on
\* deselect-all: its absolutePosition is removed and its col, row, colSpan,
\* rowSpan are the snap of that absolutePosition, moved down past the
\* grid-anchored boxes
C17_LeavingSelectionSettles ==
    [][lastOp'.op = "select" =>
        \A i \in 1..Len(homeBoxes) :
            ( /\ homeBoxes[i].id \in homeSelected
              /\ homeBoxes[i].id \notin homeSelected'
              /\ HasAbs(homeBoxes[i]) )
            => LET r == AbsRect(homeBoxes[i].absolutePosition)
                   s == snap(r.x, r.y, r.width, r.height,
                             calculateCellWidth(homeWidth))
                   anchored == {HomeRect(homeBoxes[j]) :
                                   j \in {k \in 1..Len(homeBoxes) :
                                             ~HasAbs(homeBoxes[k])}}
               IN  /\ ~HasAbs(homeBoxes'[i])
                   /\ homeBoxes'[i].col = s.col
                   /\ homeBoxes'[i].row = ResolvedRow(s, anchored)
                   /\ homeBoxes'[i].colSpan = s.colSpan
                   /\ homeBoxes'[i].rowSpan = s.rowSpan]_vars

\* C18: a select step with the multi modifier on id i changes the Selection
\* only in the membership of i, which flips (so two such clicks restore the
\* Selection); a plain select of i makes the Selection exactly {i}
C18_ToggleAndPlainClick ==
    [][lastOp'.op = "select" =>
        LET i == lastOp'.id
        IN  IF lastOp'.multiSelect
            THEN /\ homeSelected' \ {i} = homeSelected \ {i}
                 /\ (i \in homeSelected') <=> (i \notin homeSelected)
            ELSE homeSelected' = {i}]_vars

\* box-2 has just been shift-clicked out of a Selection of box-1 and box-2,
\* and box-1 is still selected
C18_Witness ==
    /\ lastOp.op = "select" /\ lastOp.id = 2 /\ lastOp.multiSelect
    /\ lastOp.wasSelected
    /\ homeSelected = {1}

\* the steps that add a box, delete boxes, clear the Layout or import one
CommitsLayout == lastOp'.op \in {"add", "delete", "deleteKey", "clear", "import"}

\* C19 (as claimed): an add, delete, clear-all or import step appends exactly
\* one entry to the History (after the entry the cursor was at), that entry
\* equals the resulting Layout and Selection, and the cursor points at it
C19_CommitAppendsResultingState ==
    [][CommitsLayout =>
        /\ history' = Append(SubSeq(history, 1, historyIndex + 1),
                             [boxes |-> homeBoxes', selectedBoxIds |-> homeSelected'])
        /\ historyIndex' = Len(history') - 1]_vars

\* C20: an intermediate update of a Free box changes that box's
\* absolutePosition (and its isSelected mark) and nothing else: its col, row,
\* colSpan, rowSpan stay, no other box changes, no History entry is pushed,
\* the cursor and the Selection stay
C20_UpdateChangesOnlyAbsolutePosition ==
    [][lastOp'.op = "update" =>
        /\ history' = history
        /\ historyIndex' = historyIndex
        /\ homeSelected' = homeSelected
        /\ Len(homeBoxes') = Len(homeBoxes)
        /\ \A i \in 1..Len(homeBoxes) :
              IF homeBoxes[i].id = lastOp'.id
              THEN homeBoxes'[i] =
                       [homeBoxes[i] EXCEPT
                           !.absolutePosition = homeBoxes'[i].absolutePosition,
                           !.isSelected = homeBoxes'[i].isSelected]
              ELSE homeBoxes'[i] = homeBoxes[i]]_vars

\* box-1 has been dragged to x = 192 over box-2: it is still on col 1, box-2
\* is where it was and the History still holds the mount entry only
C20_Witness ==
    /\ lastOp.op = "update" /\ lastOp.id = 1
    /\ Len(history) = 1 /\ historyIndex = 0
    /\ Len(homeBoxes) = 4
    /\ homeBoxes[1].id = 1 /\ homeBoxes[1].col = 1 /\ homeBoxes[1].row = 1
    /\ homeBoxes[1].absolutePosition =
           [x |-> 192, y |-> 0, width |-> 176, height |-> 80]
    /\ homeBoxes[2] = home_initialBoxes[2]

\* the steps that push a History entry
PushesHistory ==
    lastOp'.op \in {"add", "deselect", "delete", "deleteKey", "clear", "import"}

C22_OutOfRangeUndoRedoAreNoOps ==
    [][( \/ lastOp'.op = "undo" /\ historyIndex = 0
         \/ lastOp'.op = "redo" /\ historyIndex = Len(history) - 1 )
       => UNCHANGED <<homeBoxes, homeSelected, history, historyIndex>>]_vars

\* redo was called with the cursor on the latest of two entries, with box-1
\* selected since the commit
C22_Witness ==
    /\ lastOp.op = "redo" /\ lastOp.historyIndex = 1
    /\ Len(history) = 2 /\ historyIndex = 1
    /\ homeSelected = {1}
    /\ history[2].selectedBoxIds = {}

\* C23: with the cursor above 0, undo followed at once by redo leaves the
\* cursor where it was and the Layout and Selection equal to the snapshot
\* stored at the cursor
C23_UndoRedoRoundTrip ==
    historyIndex > 0 =>
        LET undone == undo(homeBoxes, homeSelected, history, historyIndex)
            redone == redo(undone.boxes, undone.selectedBoxIds, history,
                           undone.historyIndex)
        IN  /\ undone.historyIndex = historyIndex - 1
            /\ redone.historyIndex = historyIndex
            /\ redone.boxes = history[historyIndex + 1].boxes
            /\ redone.selectedBoxIds = history[historyIndex + 1].selectedBoxIds

\* redo has just brought the cursor back to entry 2 of three, after a
\* selection that was never committed: the Layout and Selection are those of
\* the entry
C23_Witness ==
    /\ lastOp.op = "redo" /\ lastOp.historyIndex = 1
    /\ historyIndex = 2 /\ Len(history) = 3
    /\ homeBoxes = history[3].boxes
    /\ homeSelected = history[3].selectedBoxIds

\* C24 (as claimed): an add-box step appends exactly one box at col 1,
\* colSpan 2, rowSpan 1, on the row after the largest row + rowSpan - 1 of
\* the existing boxes (row 1 for an empty Layout), leaves every existing box
\* unchanged, and the new box overlaps no existing box
C24_AddBoxBelowEveryBox ==
    [][lastOp'.op = "add" =>
        LET n == Len(homeBoxes)
            lastRow == IF n = 0 THEN 0
                       ELSE MaxOf({homeBoxes[i].row + homeBoxes[i].rowSpan - 1 :
                                      i \in 1..n})
        IN  /\ Len(homeBoxes') = n + 1
            /\ SubSeq(homeBoxes', 1, n) = homeBoxes
            /\ homeBoxes'[n + 1].col = 1
            /\ homeBoxes'[n + 1].row = lastRow + 1
            /\ homeBoxes'[n + 1].colSpan = 2
            /\ homeBoxes'[n + 1].rowSpan = 1
            /\ \A i \in 1..n :
                  ~RectsIntersect(HomeRect(homeBoxes'[n + 1]), HomeRect(homeBoxes[i]))]_vars

\* the boxes a file holds, whether under boxes or at its top level
ItemsOf(data) == IF data.kind = "boxes" THEN data.boxes ELSE data.items

\* the boxes are those of the file, in order: same col, row, colSpan and
\* rowSpan, and the id of the file where the file gives one
SameBoxes(bs, items) ==
    /\ Len(bs) = Len(items)
    /\ \A i \in 1..Len(items) :
          /\ bs[i].col = items[i].col
          /\ bs[i].row = items[i].row
          /\ bs[i].colSpan = items[i].colSpan
          /\ bs[i].rowSpan = items[i].rowSpan
          /\ items[i].id # 0 => bs[i].id = items[i].id

\* the step replaces the Layout by the boxes of the file, empties the
\* Selection and pushes one History entry that holds them
ImportsItems(items) ==
    /\ SameBoxes(homeBoxes', items)
    /\ homeSelected' = {}
    /\ Len(history') = historyIndex + 2
    /\ SubSeq(history', 1, historyIndex + 1) = SubSeq(history, 1, historyIndex + 1)
    /\ historyIndex' = historyIndex + 1
    /\ SameBoxes(history'[Len(history')].boxes, items)
    /\ history'[Len(history')].selectedBoxIds = {}

\* C25 (as claimed): an import of a file that holds a boxes array, or is
\* itself an array of boxes, replaces the Layout by exactly these boxes in
\* order, empties the Selection and pushes exactly one History snapshot
C25_ImportOfBoxesOrArray ==
    [][(lastOp'.op = "import" /\ lastOp'.data.kind \in {"boxes", "array"})
       => ImportsItems(ItemsOf(lastOp'.data))]_vars

\* C25 (amended): an import of a file whose top level holds a boxes array
\* replaces the Layout by exactly these boxes in order, empties the Selection
\* and pushes exactly one History snapshot; a file that is itself an array
\* is ignored: Layout, Selection, History and cursor stay and no error is
\* reported
C25_ImportOfBoxesField ==
    [][lastOp'.op = "import" =>
        /\ lastOp'.data.kind = "boxes" => ImportsItems(lastOp'.data.boxes)
        /\ lastOp'.data.kind = "array" =>
              /\ UNCHANGED <<homeBoxes, homeSelected, history, historyIndex>>
              /\ ~lastOp'.alert]_vars

\* the file with a box without id and box-2 has been imported: the Layout
\* is box-5 (the id the page made) and box-2, and one entry was pushed
C25_Witness ==
    /\ lastOp.op = "import" /\ lastOp.data.kind = "boxes"
    /\ Len(lastOp.data.boxes) = 2
    /\ Len(homeBoxes) = 2
    /\ homeBoxes[1].id = 5 /\ homeBoxes[1].col = 5 /\ homeBoxes[1].row = 2
    /\ homeBoxes[2].id = 2 /\ homeBoxes[2].colSpan = 3
    /\ homeSelected = {}
    /\ historyIndex = 1 /\ Len(history) = 2

\* C26 (as claimed): an import of a file that is no JSON, that has no boxes
\* field or whose boxes field is no array reports an error and leaves Layout,
\* Selection, History and cursor unchanged
C26_UnusableFileIsReported ==
    [][(lastOp'.op = "import"
        /\ lastOp'.data.kind \in {"malformed", "noBoxes", "boxesNotArray"})
       => /\ lastOp'.alert
          /\ UNCHANGED <<homeBoxes, homeSelected, history, historyIndex>>]_vars

\* C27 (as claimed): no box with an undefined grid field is ever in the
\* Layout, because an import that holds a box without col, row, colSpan or
\* rowSpan is rejected
C27_NoUndefinedGridField ==
    \A i \in 1..Len(homeBoxes) :
        /\ homeBoxes[i].col # Missing
        /\ homeBoxes[i].row # Missing
        /\ homeBoxes[i].colSpan # Missing
        /\ homeBoxes[i].rowSpan # Missing

\* C28 (as claimed): a select, update or delete step that names an id no box
\* of the Layout has changes neither Layout, Selection, History nor cursor
C28_EventForAbsentBoxIsNoOp ==
    [][( /\ lastOp'.op \in {"select", "update", "delete"}
         /\ lastOp'.id \notin BoxIds(homeBoxes) )
       => UNCHANGED <<homeBoxes, homeSelected, history, historyIndex>>]_vars

\* C29 (as claimed): importing the file that export writes for the Layout
\* gives the same boxes in the same order, each with the id, col, row,
\* colSpan and rowSpan it had when it was exported
C29_ExportImportRoundTrip ==
    LET file == handleExport(homeBoxes)
        imported == importedFrom(file.boxes, boxIdCounter).boxes
    IN  /\ file.kind = "boxes"
        /\ Len(imported) = Len(homeBoxes)
        /\ \A i \in 1..Len(homeBoxes) :
              /\ imported[i].id = homeBoxes[i].id
              /\ imported[i].col = homeBoxes[i].col
              /\ imported[i].row = homeBoxes[i].row
              /\ imported[i].colSpan = homeBoxes[i].colSpan
              /\ imported[i].rowSpan = homeBoxes[i].rowSpan

\* C30: a press of Delete or Backspace over a non-empty Selection removes
\* every selected box and no other box from the Layout, leaves the Selection
\* empty, and leaves at the cursor a History entry equal to the resulting
\* Layout and Selection
C30_DeleteKeyRemovesSelection ==
    [][lastOp'.op = "deleteKey" =>
        /\ homeBoxes' = SelectSeq(homeBoxes, LAMBDA b : b.id \notin homeSelected)
        /\ homeSelected' = {}
        /\ history'[historyIndex' + 1] =
               [boxes |-> homeBoxes', selectedBoxIds |-> homeSelected']]_vars

\* the boxes of a step that are in the Selection neither before nor after it
Bystanders(rec) ==
    {i \in 1..Len(gboxes) :
        /\ gboxes[i].id # rec.id
        /\ gboxes[i].id \notin selectedBoxIds \cup selectedBoxIds'}

\* every box the step neither settles nor selects is left as it was
KeepsBystanders(rec) ==
    /\ Len(gboxes') = Len(gboxes)
    /\ \A i \in Bystanders(rec) : gboxes'[i] = gboxes[i]

\* the stored rectangle has the candidate's columns and spans and a row that
\* is not above the candidate's
OnlyRowShifted(pos, candidate) ==
    /\ pos.colStart = candidate.colStart
    /\ pos.colEnd = candidate.colEnd
    /\ pos.rowEnd - pos.rowStart = candidate.rowEnd - candidate.rowStart
    /\ pos.rowStart >= candidate.rowStart

\* the candidate is free as it is, or at an offset below MAX_ATTEMPTS
Placeable(rec) ==
    ~MeetsAny(rec.candidate, rec.others) \/ FreeOffsets(rec) # {}

\* C31 (as claimed): every commit stores for the moving box a rectangle with
\* the candidate's columns and spans and a row not above the candidate's,
\* and leaves every other box exactly as it was
C31_ResolutionChangesOnlyRow ==
    [][\A rec \in lastUpdates' :
          IsCommit(rec) =>
              /\ rec.id \in BoxIds(gboxes')
              /\ OnlyRowShifted(BoxOf(gboxes', rec.id).gridPosition, rec.candidate)
              /\ KeepsBystanders(rec)]_vars

\* C31 (amended): a commit whose candidate is free at an offset below
\* MAX_ATTEMPTS stores the candidate's columns and spans at a row not above
\* the candidate's; any other commit stores the gridPosition the box held
\* before; in both cases every other box is left exactly as it was
C31_ResolutionChangesOnlyRowOrKeepsCurrent ==
    [][\A rec \in lastUpdates' :
          IsCommit(rec) =>
              /\ rec.id \in BoxIds(gboxes')
              /\ IF Placeable(rec)
                 THEN OnlyRowShifted(BoxOf(gboxes', rec.id).gridPosition, rec.candidate)
                 ELSE BoxOf(gboxes', rec.id).gridPosition \in rec.current
              /\ KeepsBystanders(rec)]_vars

\* a commit has moved its box down by at least one row past another box
\* that stayed where it was
C31_Witness ==
    \E rec \in lastUpdates :
        /\ IsCommit(rec)
        /\ MeetsAny(rec.candidate, rec.others)
        /\ rec.id \in BoxIds(gboxes)
        /\ BoxOf(gboxes, rec.id).gridPosition.rowStart > rec.candidate.rowStart
        /\ BoxOf(gboxes, rec.id).gridPosition.colStart = rec.candidate.colStart
        /\ \E o \in rec.others : \E i \in 1..Len(gboxes) : gboxes[i].gridPosition = o

\* C32 (as claimed): after a deselect-all step no two of the boxes that were
\* in the Selection have grid rectangles that overlap each other
C32_DeselectedTogetherDoNotOverlap ==
    [][lastOp'.op = "deselect" =>
        \A i, j \in 1..Len(homeBoxes') :
            ( /\ i < j
              /\ homeBoxes'[i].id \in homeSelected
              /\ homeBoxes'[j].id \in homeSelected
              /\ IsGridRect(homeBoxes'[i])
              /\ IsGridRect(homeBoxes'[j]) )
            => ~RectsIntersect(HomeRect(homeBoxes'[i]), HomeRect(homeBoxes'[j]))]_vars

\* C33: every commit ends after at most MAX_ATTEMPTS row shifts, and it ends
\* either with a position applied (the candidate itself, or the candidate
\* moved down by the shifts made) or with the fallback taken
C33_ProbeEndsWithinHundredShifts ==
    \A rec \in lastUpdates :
        IsCommit(rec) =>
            /\ rec.call.attempts \in 0..MAX_ATTEMPTS
            /\ rec.call.branch \in {"direct", "shifted", "fallback"}
            /\ rec.call.branch = "direct" => rec.call.attempts = 0
            /\ rec.call.branch = "shifted" =>
                   rec.call.gridPosition = ShiftDown(rec.candidate, rec.call.attempts)
            /\ rec.call.branch = "fallback" => rec.call.attempts = MAX_ATTEMPTS

\* a commit whose candidate met a box at every offset it tried has ended
\* after MAX_ATTEMPTS shifts
C33_Witness ==
    \E rec \in lastUpdates :
        /\ IsCommit(rec)
        /\ \A k \in 0..(MAX_ATTEMPTS - 1) : MeetsAny(ShiftDown(rec.candidate, k), rec.others)
        /\ rec.call.attempts = MAX_ATTEMPTS
        /\ rec.call.called

\* the candidate meets a box at every offset below MAX_ATTEMPTS and none at
\* MAX_ATTEMPTS itself
FreeAtLastShift(rec) ==
    /\ IsCommit(rec)
    /\ \A k \in 0..(MAX_ATTEMPTS - 1) : MeetsAny(ShiftDown(rec.candidate, k), rec.others)
    /\ ~MeetsAny(ShiftDown(rec.candidate, MAX_ATTEMPTS), rec.others)

\* C34 (as claimed): a candidate that first becomes collision-free at the
\* 100th shift is stored at that shifted position, not at the fallback
C34_FreeAtHundredthShiftIsApplied ==
    \A rec \in lastUpdates :
        FreeAtLastShift(rec) =>
            /\ rec.id \in BoxIds(gboxes)
            /\ BoxOf(gboxes, rec.id).gridPosition = ShiftDown(rec.candidate, MAX_ATTEMPTS)
            /\ rec.call.branch # "fallback"

\* C36: an undo with the cursor above 0 sets the Layout and the Selection to
\* the snapshot at cursor - 1 and moves the cursor there; a redo with the
\* cursor below the last index does the same with cursor + 1; neither changes
\* History (entry i of the page is history[i + 1] here)
C36_UndoRedoRestoreNeighbourSnapshot ==
    [][/\ (lastOp'.op = "undo" /\ historyIndex > 0) =>
              /\ homeBoxes' = history[historyIndex].boxes
              /\ homeSelected' = history[historyIndex].selectedBoxIds
              /\ historyIndex' = historyIndex - 1
              /\ history' = history
       /\ (lastOp'.op = "redo" /\ historyIndex < Len(history) - 1) =>
              /\ homeBoxes' = history[historyIndex + 2].boxes
              /\ homeSelected' = history[historyIndex + 2].selectedBoxIds
              /\ historyIndex' = historyIndex + 1
              /\ history' = history]_vars

\* redo has just moved the cursor from entry 0 to entry 1 of three: the
\* Layout and the Selection are those of entry 1, whose Layout is not entry 0's
C36_Witness ==
    /\ lastOp.op = "redo" /\ lastOp.historyIndex = 0
    /\ Len(history) = 3 /\ historyIndex = 1
    /\ homeBoxes = history[2].boxes
    /\ homeSelected = history[2].selectedBoxIds
    /\ history[2].boxes # history[1].boxes

\* a committing handler ran after the deselect whose callback is still queued
CommitBeforeTimeout ==
    /\ lastOp'.op = "timeout"
    /\ lastOp.op \in {"add", "delete", "clear", "import"}

\* C37 (as claimed): when a committing action runs between a deselect and the
\* callback the deselect queued, then once the callback has run History holds
\* the snapshot of the deselect and, after it, the snapshot of the committing
\* action, and the cursor is on that last entry
C37_TimeoutKeepsBothPushes ==
    [][CommitBeforeTimeout =>
        LET deselected == [boxes |-> jsonClone(Head(timers).updatedBoxes),
                           selectedBoxIds |-> {}]
            committed == history[historyIndex + 1]
        IN  /\ \E i \in 1..(Len(history') - 1) : history'[i] = deselected
            /\ history'[Len(history')] = committed
            /\ historyIndex' = Len(history') - 1]_vars

\* the entry History holds at index i, or the History a queued callback
\* closed over holds there
HeldAt(i) ==
    {history[j] : j \in {i} \cap 1..Len(history)}
        \cup UNION { {timers[k].history[j] : j \in {i} \cap 1..Len(timers[k].history)} :
                        k \in 1..Len(timers) }

\* C35: no step changes a stored entry: a select, drag, resize, undo or redo
\* leaves History as it is, and a step that sets History leaves below its last
\* entry only entries that were held at the same index before, as they were
C35_HistoryEntriesNeverChange ==
    [][/\ lastOp'.op \in {"select", "update", "undo", "redo"} => history' = history
       /\ \A i \in 1..(Len(history') - 1) : history'[i] \in HeldAt(i)]_vars

\* box-1 is being dragged on a live Layout that an undo restored from the
\* entry at the cursor; that entry and the entry past it are there, and the
\* live Layout is no longer the Layout of the entry at the cursor
C35_Witness ==
    /\ lastOp.op = "update"
    /\ Len(history) >= 2
    /\ historyIndex < Len(history) - 1
    /\ homeBoxes # history[historyIndex + 1].boxes
    /\ history[1] = [boxes |-> jsonClone(home_initialBoxes), selectedBoxIds |-> {}]

\* the step has pushed a History entry (a deselect pushes where its callback
\* runs: within the step, or in a timeout step of its own)
PushedEntry ==
    \/ history' # history
    \/ lastOp'.op \in {"add", "delete", "deleteKey", "clear", "timeout"}
    \/ lastOp'.op = "import" /\ lastOp'.data.kind = "boxes"

\* C38: in every state after the mount History is not empty and the cursor
\* is an index of it, and every step that pushes an entry leaves the cursor on
\* the last index
C38_CursorStaysWithinHistory ==
    /\ [](Len(history) >= 1 /\ historyIndex \in 0..(Len(history) - 1))
    /\ [][PushedEntry => historyIndex' = Len(history') - 1]_vars

\* the callback of a deselect has pushed its entry after an add had moved the
\* cursor to 1: two entries, the cursor on the last
C38_Witness ==
    /\ lastOp.op = "timeout" /\ lastOp.historyIndex = 1
    /\ boxIdCounter = 5
    /\ Len(history) = 2 /\ historyIndex = 1

\* the box was put into the Selection by the step before with no drag or
\* resize since: its absolutePosition is the pixel rectangle of its grid fields
JustSelected(b) ==
    /\ lastOp.op = "select" /\ lastOp.id = b.id /\ ~lastOp.wasSelected
    /\ IsGridRect(b)
    /\ b.absolutePosition = absPosOf(b, calculateCellWidth(homeWidth))

\* C39 (as claimed): a deselect that follows the select of a grid-anchored
\* box with no drag or resize in between leaves that box's col, row, colSpan
\* and rowSpan as they were
C39_SelectThenDeselectKeepsGridFields ==
    [][lastOp'.op = "deselect" =>
        \A i \in 1..Len(homeBoxes) :
            JustSelected(homeBoxes[i]) =>
                /\ Len(homeBoxes') = Len(homeBoxes)
                /\ homeBoxes'[i].col = homeBoxes[i].col
                /\ homeBoxes'[i].row = homeBoxes[i].row
                /\ homeBoxes'[i].colSpan = homeBoxes[i].colSpan
                /\ homeBoxes'[i].rowSpan = homeBoxes[i].rowSpan]_vars

====
